---- MODULE Spec2Model ----
(***************************************************************************)
(* cc-launcher: the OpenAI -> Anthropic SSE stream translator              *)
(* (src/translator/streaming.py) driven by the dispatcher's streaming      *)
(* generator (src/handlers/proxy_handler.py, _handle_streaming.generate).  *)
(*                                                                         *)
(* Strings that the code concatenates (tool-call arguments) are sequences  *)
(* of characters; every other string is a TLA+ string.  Python's None is   *)
(* the string "None".                                                      *)
(***************************************************************************)
EXTENDS Integers, Sequences, FiniteSets, TLC

\* ------------------------------------------------------------------ bounds
MaxChunks == 3
MaxToolIndex == 1

None == "None"

\* The value of f'toolu_{uuid.uuid4().hex[:24]}' (a fresh identifier).
GeneratedId == "toolu_uuid"

\* Tool names and upstream call ids by upstream tool-call index (inputs).
ToolNames == <<"alpha", "beta", "gamma", "delta">>
CallIds == <<"call_0", "call_1", "call_2", "call_3">>

\* Characters of the argument fragments, by upstream tool-call index (inputs):
\* a fragment of tool call i is <<FragA[i + 1]>> or <<FragB[i + 1]>>.
FragA == <<"a0", "a1", "a2", "a3">>
FragB == <<"b0", "b1", "b2", "b3">>

VARIABLES
    state,      \* translator.state, the StreamState of this response
    out,        \* the events yielded to the client so far, in order
    pc,         \* position of generate(): streaming, complete, error, disconnected
    nread,      \* number of upstream lines read so far
    line,       \* kind of the upstream line handled last ("none" before the first)
    closed,     \* response.close() has run
    logged,     \* log_api_call(... {'streaming': True}) has run
    fn,         \* the translator function applied last ("idle" before any call)
    arg,        \* its arguments
    ret,        \* its return value
    config,     \* app.config['CC_CONFIG'] and app.config['OAUTH_MANAGER']
    request,    \* the inbound POST /v1/messages request
    step,       \* position of messages() in handling it
    headers,    \* the outbound headers built for the upstream call
    counts,     \* calls made so far while handling the request
    token,      \* what oauth_manager.get_token() returned last (None before any call)
    upstream,   \* what the upstream POST did: the exception raised or the answer
    streams,    \* the translated streams of concurrent requests, by request
    oauth,      \* the OAuth manager(s): clock, lock, cache entry, callers of get_token
    log_manager, \* app.config['LOG_MANAGER'] and the threads inside log_api_call
    response    \* the response returned to the client

streamVars == <<state, out, pc, nread, line, closed, logged>>
callVars == <<fn, arg, ret>>
dispatchVars == <<config, request, step, headers, counts, token, upstream, streams,
                  oauth, log_manager, response>>

vars == <<streamVars, callVars, dispatchVars>>

\* ------------------------------------------------------------ StreamState
StreamState ==
    [ message_started       |-> FALSE,
      content_block_started |-> FALSE,
      current_block_index   |-> 0,
      current_block_type    |-> "text",
      accumulated_tool_calls |-> [i \in {} |-> None],
      input_tokens          |-> 0,
      output_tokens         |-> 0,
      stop_reason           |-> None,
      model                 |-> "claude-sonnet-4" ]

\* ------------------------------------------------------------- emitters
_emit_message_start(st) ==
    [ type |-> "message_start",
      model |-> st.model,
      input_tokens  |-> st.input_tokens,
      output_tokens |-> st.output_tokens ]

\* index = None in the code is passed here as -1.
_emit_content_block_start(st, block_type, index) ==
    LET idx == IF index = -1 THEN st.current_block_index ELSE index
    IN  IF block_type = "text"
        THEN [ type |-> "content_block_start", index |-> idx,
               content_block |-> [type |-> "text", text |-> ""] ]
        ELSE LET known == idx \in DOMAIN st.accumulated_tool_calls
                 tc_data == st.accumulated_tool_calls[idx]
             IN  [ type |-> "content_block_start", index |-> idx,
                   content_block |->
                     [ type |-> "tool_use",
                       id   |-> IF known THEN tc_data.id ELSE GeneratedId,
                       name |-> IF known THEN tc_data.name ELSE "" ] ]

_emit_text_delta(st, text) ==
    [ type |-> "content_block_delta", index |-> st.current_block_index,
      delta |-> [type |-> "text_delta", text |-> text] ]

_emit_input_json_delta(st, json_fragment) ==
    [ type |-> "content_block_delta", index |-> st.current_block_index,
      delta |-> [type |-> "input_json_delta", partial_json |-> json_fragment] ]

_emit_content_block_stop(st) ==
    [ type |-> "content_block_stop", index |-> st.current_block_index ]

\* Mutant of _emit_stream_end: the recorded stop_reason is dropped.
_emit_stream_end_unrecorded(st) ==
    << [ type |-> "message_delta",
         stop_reason   |-> "end_turn",
         stop_sequence |-> None,
         output_tokens |-> st.output_tokens ],
       [ type |-> "message_stop" ] >>

_emit_stream_end(st) ==
    << [ type |-> "message_delta",
         stop_reason   |-> IF st.stop_reason # None THEN st.stop_reason ELSE "end_turn",
         stop_sequence |-> None,
         output_tokens |-> st.output_tokens ],
       [ type |-> "message_stop" ] >>

_translate_finish_reason(finish_reason) ==
    CASE finish_reason = "stop"           -> "end_turn"
      [] finish_reason = "length"         -> "max_tokens"
      [] finish_reason = "tool_calls"     -> "tool_use"
      [] finish_reason = "content_filter" -> "end_turn"
      [] finish_reason = "function_call"  -> "tool_use"
      [] OTHER                            -> "end_turn"

emit_error_overloaded(error_msg) ==
    [ type |-> "error", error_type |-> "overloaded_error", message |-> error_msg ]

\* The error event of a stream-embedded upstream error.
emit_error(error_msg) ==
    [ type |-> "error", error_type |-> "api_error", message |-> error_msg ]

\* ---------------------------------------------------- translate_chunk parts
\* Mutant of tool_block_due: the name is not waited for.
tool_block_due_unnamed(tc_data) == ~tc_data.block_started

\* Line 171: the name is known and the block header has not been emitted.
tool_block_due(tc_data) == tc_data.name # "" /\ ~tc_data.block_started

\* Line 173: a text block is open and has to be closed first.
text_block_open(st) == st.content_block_started /\ st.current_block_type = "text"

\* Line 178: the index handed to _emit_content_block_start for a tool block.
tool_block_index(st, tc_index) == tc_index

\* Mutant of fragment_forwarded: fragments are forwarded at once.
fragment_forwarded_always(tc_data) == TRUE

\* Line 186: a fragment is forwarded only once the block has started.
fragment_forwarded(tc_data) == tc_data.block_started

\* The steps below thread acc = [state, events]: the StreamState and the local
\* list `events` of translate_chunk.

\* Lines 151-157: a tool call index seen for the first time is initialised.
tc_init(acc, tc_delta) ==
    LET calls == acc.state.accumulated_tool_calls
        fresh == [ id |-> IF tc_delta.has_id THEN tc_delta.id ELSE GeneratedId,
                   name |-> "", input_json |-> <<>>, block_started |-> FALSE ]
    IN  IF tc_delta.index \in DOMAIN calls THEN acc
        ELSE [acc EXCEPT !.state.accumulated_tool_calls =
                 [i \in DOMAIN calls \cup {tc_delta.index} |->
                     IF i = tc_delta.index THEN fresh ELSE calls[i]]]

\* Lines 163-164: the id is updated if provided.
tc_id(acc, tc_delta) ==
    IF tc_delta.has_id
    THEN [acc EXCEPT !.state.accumulated_tool_calls[tc_delta.index].id = tc_delta.id]
    ELSE acc

\* Lines 166-168: the name is set if provided.
tc_name(acc, tc_delta) ==
    IF tc_delta.has_function /\ tc_delta.has_name
    THEN [acc EXCEPT !.state.accumulated_tool_calls[tc_delta.index].name = tc_delta.name]
    ELSE acc

\* Lines 171-175: an open text block is closed before the tool block starts.
tc_close_text(acc, tc_delta) ==
    IF /\ tc_delta.has_function
       /\ tool_block_due(acc.state.accumulated_tool_calls[tc_delta.index])
       /\ text_block_open(acc.state)
    THEN [acc EXCEPT !.events = Append(@, _emit_content_block_stop(acc.state)),
                     !.state.current_block_index = @ + 1]
    ELSE acc

\* Lines 171, 177-181: the tool block header is emitted.
tc_start_block(acc, tc_delta) ==
    IF /\ tc_delta.has_function
       /\ tool_block_due(acc.state.accumulated_tool_calls[tc_delta.index])
    THEN [acc EXCEPT
            !.events = Append(@, _emit_content_block_start(acc.state, "tool_use",
                                     tool_block_index(acc.state, tc_delta.index))),
            !.state.content_block_started = TRUE,
            !.state.current_block_type = "tool_use",
            !.state.accumulated_tool_calls[tc_delta.index].block_started = TRUE]
    ELSE acc

\* Lines 183-187: a fragment of the arguments is accumulated and forwarded.
tc_arguments(acc, tc_delta) ==
    IF tc_delta.has_function /\ tc_delta.has_arguments
    THEN [acc EXCEPT
            !.state.accumulated_tool_calls[tc_delta.index].input_json =
                @ \o tc_delta.arguments,
            !.events =
                IF fragment_forwarded(acc.state.accumulated_tool_calls[tc_delta.index])
                THEN Append(@, _emit_input_json_delta(acc.state, tc_delta.arguments))
                ELSE @]
    ELSE acc

\* Lines 146-187: one entry of delta['tool_calls'].
handle_tool_call(acc, tc_delta) ==
    tc_arguments(
      tc_start_block(
        tc_close_text(
          tc_name(tc_id(tc_init(acc, tc_delta), tc_delta), tc_delta),
          tc_delta),
        tc_delta),
      tc_delta)

\* Lines 145-187: the loop over delta['tool_calls'].
RECURSIVE handle_tool_calls(_, _)
handle_tool_calls(acc, tool_calls) ==
    IF tool_calls = <<>> THEN acc
    ELSE handle_tool_calls(handle_tool_call(acc, Head(tool_calls)), Tail(tool_calls))

\* Lines 125-128: message_start is emitted once.
handle_message_start(acc) ==
    IF ~acc.state.message_started
    THEN [acc EXCEPT !.events = Append(@, _emit_message_start(acc.state)),
                     !.state.message_started = TRUE]
    ELSE acc

\* Lines 136-140: a text block is opened when none is open.
handle_text_open(acc, delta) ==
    IF delta.content # "" /\ ~acc.state.content_block_started
    THEN [acc EXCEPT !.events = Append(@, _emit_content_block_start(acc.state, "text", -1)),
                     !.state.content_block_started = TRUE,
                     !.state.current_block_type = "text"]
    ELSE acc

\* Lines 136, 142: the text delta.
handle_text(acc, delta) ==
    IF delta.content # ""
    THEN [acc EXCEPT !.events = Append(@, _emit_text_delta(acc.state, delta.content))]
    ELSE acc

\* Lines 190-195: finish_reason records stop_reason and ends the current block.
handle_finish_reason(acc, finish_reason) ==
    IF finish_reason # None
    THEN [acc EXCEPT
            !.state.stop_reason = _translate_finish_reason(finish_reason),
            !.events = IF acc.state.content_block_started
                       THEN Append(@, _emit_content_block_stop(acc.state)) ELSE @]
    ELSE acc

\* A usage chunk that also restarts the message.
handle_usage_restarts(st, data) ==
    IF data.has_usage
    THEN [st EXCEPT !.input_tokens = data.prompt_tokens,
                    !.output_tokens = data.completion_tokens,
                    !.message_started = FALSE]
    ELSE st

\* Lines 112-119: no choices; usage, if any, is recorded.
handle_usage(st, data) ==
    IF data.has_usage
    THEN [st EXCEPT !.input_tokens = data.prompt_tokens,
                    !.output_tokens = data.completion_tokens]
    ELSE st

\* Lines 112-197: a JSON object without a top-level 'error'.
handle_data(st, data) ==
    IF ~data.has_choices
    THEN [state |-> handle_usage(st, data), events |-> <<>>]
    ELSE handle_finish_reason(
           handle_tool_calls(
             handle_text(
               handle_text_open(
                 handle_message_start([state |-> st, events |-> <<>>]),
                 data),
               data),
             data.tool_calls),
           data.finish_reason)

\* Lines 52-197.  raised: the call ends by an exception instead of a return.
translate_chunk(st, chunk) ==
    CASE chunk.kind = "space"   -> [state |-> st, events |-> <<>>, raised |-> FALSE]
      [] chunk.kind = "done"    -> [state |-> st, events |-> _emit_stream_end(st),
                                    raised |-> FALSE]
      [] chunk.kind = "nondata" -> [state |-> st, events |-> <<>>, raised |-> FALSE]
      [] chunk.kind = "badjson" -> [state |-> st, events |-> <<>>, raised |-> FALSE]
      [] chunk.kind = "nondict" -> [state |-> st, events |-> <<>>, raised |-> TRUE]
      [] chunk.kind = "error"   -> [state |-> st, events |-> <<emit_error(chunk.message)>>,
                                    raised |-> FALSE]
      [] chunk.kind = "data"    -> LET r == handle_data(st, chunk)
                                   IN  [state |-> r.state, events |-> r.events,
                                        raised |-> FALSE]

\* ------------------------------------------------------- upstream lines
Chunk(kind) ==
    [ kind |-> kind, message |-> "", has_choices |-> FALSE, has_usage |-> FALSE,
      prompt_tokens |-> 0, completion_tokens |-> 0,
      content |-> "", tool_calls |-> <<>>, finish_reason |-> None ]

\* data: {"error": ...}; message is what lines 95-101 extract from it.
ErrorChunk(message) == [Chunk("error") EXCEPT !.message = message]

\* data: {"choices": [], "usage": {...}}
UsageChunk(p, c) ==
    [Chunk("data") EXCEPT !.has_usage = TRUE, !.prompt_tokens = p, !.completion_tokens = c]

\* data: {"choices": [{"delta": {...}, "finish_reason": ...}]}
DeltaChunk(content, tool_calls, finish_reason) ==
    [Chunk("data") EXCEPT !.has_choices = TRUE, !.content = content,
                          !.tool_calls = tool_calls, !.finish_reason = finish_reason]

ToolCallDelta(index, has_id, has_name, has_arguments, arguments) ==
    [ index |-> index, has_id |-> has_id, id |-> CallIds[index + 1],
      has_function |-> has_name \/ has_arguments,
      has_name |-> has_name, name |-> ToolNames[index + 1],
      has_arguments |-> has_arguments, arguments |-> arguments ]

ToolCallDeltas ==
    UNION { { ToolCallDelta(i, TRUE, FALSE, FALSE, <<>>),      \* id, no function yet
              ToolCallDelta(i, TRUE, TRUE, FALSE, <<>>),       \* id and name
              ToolCallDelta(i, FALSE, TRUE, TRUE, <<FragB[i + 1]>>),    \* name and a fragment
              ToolCallDelta(i, FALSE, FALSE, TRUE, <<FragA[i + 1]>>) }  \* a fragment alone
            : i \in 0..MaxToolIndex }

FinishReasons ==
    {"stop", "length", "tool_calls", "content_filter", "function_call", "eos"}

Chunks ==
    { Chunk("space"), Chunk("done"), Chunk("nondata"), Chunk("badjson"),
      Chunk("data"), ErrorChunk("upstream failed"), UsageChunk(3, 2) }
    \cup { DeltaChunk(c, <<>>, None) : c \in {"", "Hi"} }
    \cup { DeltaChunk("", <<tc>>, None) : tc \in ToolCallDeltas }
    \cup { DeltaChunk("", <<>>, f) : f \in FinishReasons }
    \cup { DeltaChunk("Hi", <<ToolCallDelta(0, TRUE, TRUE, FALSE, <<>>)>>, None),
           DeltaChunk("Hi", <<>>, "stop"),
           DeltaChunk("", <<ToolCallDelta(0, TRUE, TRUE, TRUE, <<FragB[1]>>)>>, "tool_calls"),
           DeltaChunk("", <<ToolCallDelta(0, TRUE, TRUE, FALSE, <<>>),
                            ToolCallDelta(MaxToolIndex, TRUE, TRUE, FALSE, <<>>)>>, None) }

\* A line whose JSON body is not an object: 'error' in data raises TypeError.
RaisingChunks == { Chunk("nondict") }

\* ------------------------------------------- _handle_streaming.generate
\* No translator function is being applied on its own.
NoCall == fn = "idle" /\ arg = None /\ ret = <<>>

\* No request is being dispatched.
NoDispatch ==
    /\ config = None /\ request = None /\ step = "idle"
    /\ headers = None /\ counts = None /\ token = None /\ response = None
    /\ upstream = None /\ streams = <<>> /\ oauth = None /\ log_manager = None

\* One streaming response, from the construction of its translator on.
StreamInit ==
    /\ state = StreamState
    /\ out = <<>>
    /\ pc = "streaming"
    /\ nread = 0
    /\ line = "none"
    /\ closed = FALSE
    /\ logged = FALSE

\* No streaming response is open.
NoStream ==
    /\ state = StreamState
    /\ out = <<>>
    /\ pc = "idle"
    /\ nread = 0
    /\ line = "none"
    /\ closed = FALSE
    /\ logged = FALSE

\* The error event of the except branch (lines 281-296).
streaming_error_event == emit_error("exception")

Init ==
    /\ StreamInit
    /\ NoCall
    /\ NoDispatch

\* Line 262 yields an empty line: `if chunk:` skips it.
ReadBlank ==
    /\ pc = "streaming"
    /\ nread < MaxChunks
    /\ nread' = nread + 1
    /\ line' = "blank"
    /\ UNCHANGED <<state, out, pc, closed, logged, callVars, dispatchVars>>

\* Lines 262-267: one line is read, translated, and all its events are yielded.
ReadChunk ==
    /\ pc = "streaming"
    /\ nread < MaxChunks
    /\ \E chunk \in Chunks :
         LET r == translate_chunk(state, chunk)
         IN  /\ state' = r.state
             /\ out' = out \o r.events
             /\ line' = chunk.kind
    /\ nread' = nread + 1
    /\ UNCHANGED <<pc, closed, logged, callVars, dispatchVars>>

\* Lines 262-298: translate_chunk raises; the except branch yields one error
\* event and the finally branch closes the upstream response.
TranslatorRaises ==
    /\ pc = "streaming"
    /\ nread < MaxChunks
    /\ \E chunk \in RaisingChunks :
         LET r == translate_chunk(state, chunk)
         IN  /\ r.raised
             /\ state' = r.state
             /\ out' = Append(out, streaming_error_event)
             /\ line' = chunk.kind
    /\ nread' = nread + 1
    /\ pc' = "error"
    /\ closed' = TRUE
    /\ UNCHANGED <<logged, callVars, dispatchVars>>

\* Lines 262, 281-298: response.iter_lines() raises (the connection dropped).
UpstreamRaises ==
    /\ pc = "streaming"
    /\ out' = Append(out, streaming_error_event)
    /\ pc' = "error"
    /\ closed' = TRUE
    /\ UNCHANGED <<state, nread, line, logged, callVars, dispatchVars>>

\* Lines 262, 269-277, 297-298: the iterator is exhausted (upstream closed).
UpstreamExhausted ==
    /\ pc = "streaming"
    /\ pc' = "complete"
    /\ logged' = TRUE
    /\ closed' = TRUE
    /\ UNCHANGED <<state, out, nread, line, callVars, dispatchVars>>

\* A generator whose GeneratorExit path leaves the upstream response open.
ClientDisconnects_leak ==
    /\ pc = "streaming"
    /\ nread < MaxChunks
    /\ \E chunk \in Chunks :
         /\ translate_chunk(state, chunk).events # <<>>
         /\ out' = out \o translate_chunk(state, chunk).events
         /\ state' = translate_chunk(state, chunk).state
         /\ line' = chunk.kind
    /\ nread' = nread + 1
    /\ pc' = "disconnected"
    /\ UNCHANGED <<closed, logged, callVars, dispatchVars>>

\* Lines 266-267, 279-280, 297-298: the client goes away while the events of a
\* line are being yielded; GeneratorExit is raised at the yield of event k.
ClientDisconnects ==
    /\ pc = "streaming"
    /\ nread < MaxChunks
    /\ \E chunk \in Chunks :
         LET r == translate_chunk(state, chunk)
         IN  /\ r.events # <<>>
             /\ \E k \in 1..Len(r.events) :
                  out' = out \o SubSeq(r.events, 1, k)
             /\ state' = r.state
             /\ line' = chunk.kind
    /\ nread' = nread + 1
    /\ pc' = "disconnected"
    /\ closed' = TRUE
    /\ UNCHANGED <<logged, callVars, dispatchVars>>

Next ==
    \/ ReadBlank
    \/ ReadChunk
    \/ TranslatorRaises
    \/ UpstreamRaises
    \/ UpstreamExhausted
    \/ ClientDisconnects

Spec == Init /\ [][Next]_vars

\* ======================================================= request translator
\* src/src/translator/anthropic_to_openai.py.  A Python string is a sequence
\* of string atoms (so that ' '.join and f-strings are concatenations); a
\* message content is wrapped: Text(s), Parts(list) or NoContent (None).
Text(s)  == [kind |-> "str", v |-> s]
Parts(l) == [kind |-> "list", v |-> l]
NoContent == [kind |-> "none", v |-> <<>>]

\* ' '.join(parts)
RECURSIVE Join(_)
Join(parts) ==
    IF parts = <<>> THEN <<>>
    ELSE IF Len(parts) = 1 THEN parts[1]
    ELSE parts[1] \o <<" ">> \o Join(Tail(parts))

\* [f(x) for x in seq if keep(x)] for the text blocks of a block list:
\* block.get('text', '') for every block of type 'text'.
RECURSIVE TextsOf(_)
TextsOf(blocks) ==
    IF blocks = <<>> THEN <<>>
    ELSE IF Head(blocks).type = "text"
         THEN <<Head(blocks).text>> \o TextsOf(Tail(blocks))
         ELSE TextsOf(Tail(blocks))

\* Lines 35-47: the top-level system prompt becomes the first message.
system_messages(system_prompt) ==
    IF system_prompt.kind = "str" /\ system_prompt.v # <<>>
    THEN << [role |-> "system", content |-> Text(system_prompt.v)] >>
    ELSE IF system_prompt.kind = "list" /\ system_prompt.v # <<>>
              /\ Join(TextsOf(system_prompt.v)) # <<>>
         THEN << [role |-> "system", content |-> Text(Join(TextsOf(system_prompt.v)))] >>
         ELSE <<>>

\* Lines 137-154: a tool_result block becomes a tool message.
tool_message_of(block) ==
    LET tool_content == IF block.content.kind = "list"
                        THEN Join(TextsOf(block.content.v))
                        ELSE block.content.v
    IN  [ role |-> "tool",
          tool_call_id |-> block.tool_use_id,
          content |-> Text(IF block.is_error THEN <<"Error: ">> \o tool_content
                           ELSE tool_content) ]

\* Lines 133-154: the tool messages of the tool_result blocks, in block order.
RECURSIVE tool_results_of(_)
tool_results_of(content) ==
    IF content = <<>> THEN <<>>
    ELSE IF Head(content).type = "tool_result"
         THEN <<tool_message_of(Head(content))>> \o tool_results_of(Tail(content))
         ELSE tool_results_of(Tail(content))

\* Lines 155-169: the text and base64 image blocks, in block order.
RECURSIVE other_content_of(_)
other_content_of(content) ==
    IF content = <<>> THEN <<>>
    ELSE LET block == Head(content)
             rest == other_content_of(Tail(content))
         IN  IF block.type = "text"
             THEN <<[type |-> "text", text |-> block.text]>> \o rest
             ELSE IF block.type = "image" /\ block.source_type = "base64"
                  THEN << [ type |-> "image_url",
                            url |-> <<"data:", block.media_type, ";base64,", block.data>> ] >>
                       \o rest
                  ELSE rest

\* Lines 178-185: the user message built from the non-tool content.
user_message_of(other_content) ==
    IF other_content = <<>> THEN <<>>
    ELSE IF Len(other_content) = 1 /\ other_content[1].type = "text"
         THEN << [role |-> "user", content |-> Text(other_content[1].text)] >>
         ELSE << [role |-> "user", content |-> Parts(other_content)] >>

user_result_user_first(tool_results, user_messages) == user_messages \o tool_results

\* Lines 171-176: tool messages first, then the user message.
user_result(tool_results, user_messages) == tool_results \o user_messages

\* Lines 114-195.  The return value is the list of messages it stands for: a
\* single dict is a list of one.
_translate_user_message(msg) ==
    IF msg.content.kind = "str"
    THEN << [role |-> "user", content |-> Text(msg.content.v)] >>
    ELSE IF msg.content.kind = "list"
    THEN LET result == user_result(tool_results_of(msg.content.v),
                                   user_message_of(other_content_of(msg.content.v)))
         IN  IF result = <<>>
             THEN << [role |-> "user", content |-> Text(<<>>)] >>
             ELSE result
    ELSE << [role |-> "user", content |-> Text(<<"None">>)] >>

\* json.dumps of a tool input: the text of the JSON value.
json_dumps(value) == <<"json:", value>>

\* Lines 213-229: the tool_use blocks become tool calls; i is the block's
\* position in content (enumerate).
RECURSIVE tool_calls_of(_, _)
tool_calls_of(content, i) ==
    IF content = <<>> THEN <<>>
    ELSE IF Head(content).type = "tool_use"
         THEN << [ id |-> IF Head(content).has_id THEN Head(content).id
                          ELSE <<"call_", i>>,
                   type |-> "function",
                   name |-> Head(content).name,
                   arguments |-> json_dumps(Head(content).input) ] >>
              \o tool_calls_of(Tail(content), i + 1)
         ELSE tool_calls_of(Tail(content), i + 1)

\* Lines 198-242.
_translate_assistant_message(msg) ==
    IF msg.content.kind = "str"
    THEN [role |-> "assistant", content |-> Text(msg.content.v), tool_calls |-> <<>>]
    ELSE IF msg.content.kind = "list"
    THEN [ role |-> "assistant",
           content |-> IF TextsOf(msg.content.v) # <<>>
                       THEN Text(Join(TextsOf(msg.content.v))) ELSE NoContent,
           tool_calls |-> tool_calls_of(msg.content.v, 0) ]
    ELSE [role |-> "assistant", content |-> NoContent, tool_calls |-> <<>>]

\* Lines 245-261: a message of role tool_result.
_translate_tool_result(msg) ==
    [ role |-> "tool",
      tool_call_id |-> msg.tool_use_id,
      content |-> Text(IF msg.content.kind = "list" THEN Join(TextsOf(msg.content.v))
                       ELSE IF msg.content.kind = "str" THEN msg.content.v
                       ELSE <<"None">>) ]

_translate_message_any_role(msg) ==
    CASE msg.role = "user"        -> _translate_user_message(msg)
      [] msg.role = "assistant"   -> <<_translate_assistant_message(msg)>>
      [] msg.role = "tool_result" -> <<_translate_tool_result(msg)>>
      [] OTHER                    -> <<[role |-> msg.role, content |-> msg.content]>>

\* Lines 97-111.  The list of messages the return value stands for; None (an
\* unknown role) is the empty list.
_translate_message(msg) ==
    CASE msg.role = "user"        -> _translate_user_message(msg)
      [] msg.role = "assistant"   -> <<_translate_assistant_message(msg)>>
      [] msg.role = "tool_result" -> <<_translate_tool_result(msg)>>
      [] OTHER                    -> <<>>

\* A loop that puts the translation of the last input message first.
translate_messages_last_first(msgs) ==
    IF msgs = <<>> THEN <<>>
    ELSE _translate_message(msgs[Len(msgs)])
           \o (IF Len(msgs) > 1 THEN _translate_message(msgs[1]) ELSE <<>>)

\* Lines 49-57: the loop over the input messages.
RECURSIVE translate_messages(_)
translate_messages(msgs) ==
    IF msgs = <<>> THEN <<>>
    ELSE _translate_message(Head(msgs)) \o translate_messages(Tail(msgs))

max_tokens_of_default(anthropic_request, default_max_tokens) == default_max_tokens

\* Lines 61-63: anthropic_request.get('max_tokens', default_max_tokens)
max_tokens_of(anthropic_request, default_max_tokens) ==
    IF anthropic_request.has_max_tokens THEN anthropic_request.max_tokens
    ELSE default_max_tokens

\* Lines 9-94.  model_mapper is a function from model names to model names.
translate_request(anthropic_request, model_mapper, default_max_tokens) ==
    [ model |-> model_mapper[anthropic_request.model],
      messages |-> system_messages(anthropic_request.system)
                   \o translate_messages(anthropic_request.messages),
      max_tokens |-> max_tokens_of(anthropic_request, default_max_tokens),
      has_stream |-> anthropic_request.has_stream,
      stream |-> anthropic_request.has_stream /\ anthropic_request.stream,
      has_stream_options |-> anthropic_request.has_stream /\ anthropic_request.stream ]

\* ========================================================= error translator
\* src/translator/openai_to_anthropic.py, translate_error.  An error body is a
\* record: type ('' when the key is absent), has_error ('error' in body), error,
\* message and detail ('' when absent).  The value of 'error' is a string
\* (kind "str", in text) or a dict (kind "dict") with the set of its keys and
\* the values of type, code and message ('' when absent or empty).
ErrorInfo(kind, keys, type, code, message, text) ==
    [kind |-> kind, keys |-> keys, type |-> type, code |-> code,
     message |-> message, text |-> text]

\* Lines 160-166 (and 124-130): the envelope the function builds.
error_envelope(type, message) ==
    [ type |-> "error", has_error |-> TRUE,
      error |-> ErrorInfo("dict", {"type", "message"}, type, "", message, ""),
      message |-> "", detail |-> "" ]

\* x or y, on strings
Or(x, y) == IF x # "" THEN x ELSE y

already_anthropic_never(error_response) == FALSE

\* Line 116: error_response.get('type') == 'error' and 'error' in error_response
already_anthropic(error_response) ==
    error_response.type = "error" /\ error_response.has_error

\* Lines 133-150: error_type_map.get(openai_type, 'api_error')
error_type_map(openai_type) ==
    CASE openai_type \in { "invalid_request_error", "authentication_error",
                           "permission_error", "not_found_error",
                           "rate_limit_error" } -> openai_type
      [] openai_type = "timeout" -> "overloaded_error"
      [] OTHER -> "api_error"

\* Lines 153-158.  The conditional expression binds weaker than 'or':
\* (a or b or c or str(body)) if not error_info else 'An error occurred'.
error_message_of(error_response, error_info) ==
    IF error_info.keys = {}
    THEN Or(error_info.message,
            Or(error_response.message,
               Or(error_response.detail, ToString(error_response))))
    ELSE "An error occurred"

\* Lines 97-166.
translate_error(error_response, status_code) ==
    IF already_anthropic(error_response) THEN error_response
    ELSE LET error_info == IF error_response.has_error THEN error_response.error
                           ELSE ErrorInfo("dict", {}, "", "", "", "")
         IN  IF error_info.kind = "str"
             THEN error_envelope("api_error", error_info.text)
             ELSE error_envelope(
                      error_type_map(Or(error_info.type,
                                        Or(error_info.code,
                                           Or(error_response.type, "api_error")))),
                      error_message_of(error_response, error_info))

\* An exception that ends a call: what the call "returns" then.
Raise(exception) == <<"raise", exception>>

\* Lines 121-145: error_response.get('error', {}) is None when the key holds
\* null, and None has no .get.
translate_error_raises(error_response) ==
    /\ ~already_anthropic(error_response)
    /\ error_response.has_error
    /\ error_response.error.kind = "null"

\* The values of 'error': {}, dicts with and without a message, a type or a
\* code, a string, and null.
ErrorInfos ==
    { ErrorInfo("dict", {}, "", "", "", ""),
      ErrorInfo("dict", {"message"}, "", "", "Rate limit hit", ""),
      ErrorInfo("dict", {"message"}, "", "", "", ""),
      ErrorInfo("dict", {"type", "message"}, "rate_limit_error", "", "Rate limit hit", ""),
      ErrorInfo("dict", {"type", "message"}, "overloaded_error", "", "busy", ""),
      ErrorInfo("dict", {"type"}, "server_error", "", "", ""),
      ErrorInfo("dict", {"code"}, "", "timeout", "", ""),
      ErrorInfo("str", {}, "", "", "", "boom"),
      ErrorInfo("null", {}, "", "", "", "") }

ErrorBodies ==
    [ type : {"", "error", "invalid_request_error"},
      has_error : BOOLEAN,
      error : ErrorInfos,
      message : {"", "top"},
      detail : {"", "d"} ]

StatusCodes == {400, 429, 500}

\* ------------------------------------------------- request translator inputs
MaxMessages == 2
MaxBlocks == 3
DefaultMaxTokens == 16384

\* All sequences over S of length at most n.
SeqsUpTo(S, n) == UNION { [1..k -> S] : k \in 0..n }

\* The blocks a user message may carry: text, tool_result (string content;
\* block-list content with is_error), image (base64 and url), a non-dict.
UserBlocks ==
    { [type |-> "text", text |-> <<"t">>],
      [type |-> "tool_result", tool_use_id |-> "toolu_A",
       content |-> Text(<<"r">>), is_error |-> FALSE],
      [type |-> "tool_result", tool_use_id |-> "toolu_B",
       content |-> Parts(<<[type |-> "text", text |-> <<"e">>]>>), is_error |-> TRUE],
      [type |-> "image", source_type |-> "base64", media_type |-> "image/png",
       data |-> "AAAA"],
      [type |-> "image", source_type |-> "url", media_type |-> "image/png",
       data |-> ""],
      [type |-> "nondict"] }

UserMessages == { [role |-> "user", content |-> Parts(c)] : c \in SeqsUpTo(UserBlocks, MaxBlocks) }

\* The messages of a request: every role the code knows, 'system' and an
\* unknown one.
Messages ==
    { [role |-> "user", content |-> Text(<<"hi">>)],
      [role |-> "user", content |->
          Parts(<< [type |-> "text", text |-> <<"t">>],
                   [type |-> "tool_result", tool_use_id |-> "toolu_A",
                    content |-> Text(<<"r">>), is_error |-> FALSE] >>)],
      [role |-> "assistant", content |->
          Parts(<< [type |-> "text", text |-> <<"a">>],
                   [type |-> "tool_use", has_id |-> TRUE, id |-> <<"toolu_A">>,
                    name |-> "f", input |-> "{}"] >>)],
      [role |-> "tool_result", tool_use_id |-> "toolu_A", content |-> Text(<<"r">>)],
      [role |-> "system", content |-> Text(<<"be brief">>)],
      [role |-> "developer", content |-> Text(<<"x">>)] }

\* The 'system' field: absent, '', a string, [], text blocks (one with an empty
\* text, two), and a block list whose only block is not a text block.
SystemPrompts ==
    { NoContent, Text(<<>>), Text(<<"S">>), Parts(<<>>),
      Parts(<<[type |-> "text", text |-> <<>>]>>),
      Parts(<<[type |-> "text", text |-> <<"S">>], [type |-> "text", text |-> <<"T">>]>>),
      Parts(<<[type |-> "image"]>>) }

ClientModels == {"claude-sonnet-4", "claude-opus-4"}
UpstreamModels == {"gpt-4o", "o3"}
ModelMappers == [ClientModels -> UpstreamModels]

Requests ==
    [ model : ClientModels,
      system : SystemPrompts,
      messages : SeqsUpTo(Messages, MaxMessages),
      has_max_tokens : BOOLEAN,
      max_tokens : {100},
      has_stream : BOOLEAN,
      stream : {TRUE} ]

\* ====================================================== response translator
\* src/translator/openai_to_anthropic.py, translate_response.  A JSON text is
\* <<"json:", value>> (what json_dumps writes); any other text is not JSON.
MaxToolCalls == 2

_translate_finish_reason_no_legacy(finish_reason) ==
    IF finish_reason = None \/ finish_reason = "" THEN None
    ELSE CASE finish_reason = "stop"           -> "end_turn"
           [] finish_reason = "length"         -> "max_tokens"
           [] finish_reason = "tool_calls"     -> "tool_use"
           [] OTHER                            -> "end_turn"

\* Lines 169-182: the module-level _translate_finish_reason.
_translate_finish_reason_response(finish_reason) ==
    IF finish_reason = None \/ finish_reason = "" THEN None
    ELSE CASE finish_reason = "stop"           -> "end_turn"
           [] finish_reason = "length"         -> "max_tokens"
           [] finish_reason = "tool_calls"     -> "tool_use"
           [] finish_reason = "content_filter" -> "end_turn"
           [] finish_reason = "function_call"  -> "tool_use"
           [] OTHER                            -> "end_turn"

\* A translator that never parses the arguments.
tool_input_of_raw(arguments) == [raw |-> TRUE, value |-> arguments]

\* Lines 70-73: json.loads(arguments), or {'raw': arguments} when it is not JSON.
tool_input_of(arguments) ==
    IF Len(arguments) = 2 /\ arguments[1] = "json:"
    THEN [raw |-> FALSE, value |-> arguments[2]]
    ELSE [raw |-> TRUE, value |-> arguments]

\* Lines 64-80: the tool_use blocks of the function tool calls.
RECURSIVE tool_use_blocks(_)
tool_use_blocks(tool_calls) ==
    IF tool_calls = <<>> THEN <<>>
    ELSE IF Head(tool_calls).type = "function"
         THEN << [ type |-> "tool_use",
                   id |-> IF Head(tool_calls).has_id THEN Head(tool_calls).id
                          ELSE GeneratedId,
                   name |-> Head(tool_calls).name,
                   input |-> tool_input_of(Head(tool_calls).arguments) ] >>
              \o tool_use_blocks(Tail(tool_calls))
         ELSE tool_use_blocks(Tail(tool_calls))

\* Lines 11-94.
translate_response(openai_response, original_model) ==
    IF ~openai_response.has_choices
    THEN [ type |-> "message", role |-> "assistant", model |-> original_model,
           content |-> <<>>, stop_reason |-> None, stop_sequence |-> None,
           input_tokens |-> 0, output_tokens |-> 0 ]
    ELSE [ type |-> "message", role |-> "assistant", model |-> original_model,
           content |-> (IF openai_response.content # ""
                        THEN <<[type |-> "text", text |-> openai_response.content]>>
                        ELSE <<>>)
                       \o tool_use_blocks(openai_response.tool_calls),
           stop_reason |-> _translate_finish_reason_response(openai_response.finish_reason),
           stop_sequence |-> None,
           input_tokens |-> openai_response.prompt_tokens,
           output_tokens |-> openai_response.completion_tokens ]

\* Lines 64-65, 67-71 and 88-90: .get(key, default) gives None for a key that
\* holds null; the loop over tool_calls, func.get, json.loads and usage.get
\* then raise TypeError or AttributeError.
translate_response_raises(openai_response) ==
    /\ openai_response.has_choices
    /\ \/ openai_response.nulls \cap {"tool_calls", "usage"} # {}
       \/ /\ openai_response.nulls \cap {"function", "arguments"} # {}
          /\ \E i \in 1..Len(openai_response.tool_calls) :
                 openai_response.tool_calls[i].type = "function"

\* The tool calls of an upstream message: with and without an id, arguments
\* that are JSON and arguments that are not, and a call of another type.
ResponseToolCalls ==
    { [type |-> "function", has_id |-> TRUE, id |-> "call_1", name |-> "f",
       arguments |-> <<"json:", "{}">>],
      [type |-> "function", has_id |-> FALSE, id |-> "", name |-> "g",
       arguments |-> <<"{bad">>],
      [type |-> "custom", has_id |-> TRUE, id |-> "call_2", name |-> "h",
       arguments |-> <<"json:", "{}">>] }

OpenAIResponses ==
    [ has_choices : BOOLEAN,
      model : UpstreamModels,
      content : {"", "Hello"},
      tool_calls : SeqsUpTo(ResponseToolCalls, MaxToolCalls),
      finish_reason : FinishReasons \cup {None, ""},
      prompt_tokens : {0, 3},
      completion_tokens : {2},
      nulls : { {}, {"tool_calls"}, {"usage"}, {"function"}, {"arguments"} } ]

\* ---------------------------------------------------------- model mapping
\* Model names are sequences of characters; the mapping is the dict
\* model_mapping in insertion order, a sequence of [source, target] with
\* distinct sources.
MaxRules == 2

\* str.lower(), for the capitals that occur in the names below.
lower(s) ==
    [ i \in DOMAIN s |-> CASE s[i] = "C" -> "c" [] s[i] = "O" -> "o"
                            [] s[i] = "H" -> "h" [] OTHER -> s[i] ]

\* s.lower().replace('.', '-')
normalized(s) == [ i \in DOMAIN s |-> IF lower(s)[i] = "." THEN "-" ELSE lower(s)[i] ]

\* sub in s
In(sub, s) ==
    \E i \in 0..(Len(s) - Len(sub)) : SubSeq(s, i + 1, i + Len(sub)) = sub

\* for source, target in model_mapping.items(): if <test>: return target
\* where hits are the positions of the sources that pass the test.
first_target(model_mapping, hits) ==
    IF hits = {}
    THEN [found |-> FALSE, target |-> <<>>]
    ELSE [found |-> TRUE,
          target |-> model_mapping[CHOOSE i \in hits : \A j \in hits : i <= j].target]

exact_match_never(model_mapping, claude_model) == [found |-> FALSE, target |-> <<>>]

\* Lines 69-73 of src/config.py, 84-88 of src/src/config.py.
exact_match(model_mapping, claude_model) ==
    first_target(model_mapping, { i \in DOMAIN model_mapping :
                           model_mapping[i].source = claude_model })

\* src/config.py lines 56-115: exact, then normalized substring either way,
\* then the family patterns, then the input itself.
map_model_name(model_mapping, claude_model) ==
    LET name == normalized(claude_model)
        partial == first_target(model_mapping, { i \in DOMAIN model_mapping :
                           \/ In(normalized(model_mapping[i].source), name)
                           \/ In(name, normalized(model_mapping[i].source)) })
        sonnet_4_5 == first_target(model_mapping, { i \in DOMAIN model_mapping :
                           /\ In(<<"s", "o", "n", "n", "e", "t">>, normalized(model_mapping[i].source))
                           /\ In(<<"4", "-", "5">>, normalized(model_mapping[i].source)) })
        opus == first_target(model_mapping, { i \in DOMAIN model_mapping :
                           In(<<"o", "p", "u", "s">>, lower(model_mapping[i].source)) })
        sonnet_4 == first_target(model_mapping, { i \in DOMAIN model_mapping :
                           /\ In(<<"s", "o", "n", "n", "e", "t">>, normalized(model_mapping[i].source))
                           /\ ~In(<<"4", "-", "5">>, normalized(model_mapping[i].source))
                           /\ In(<<"4">>, normalized(model_mapping[i].source)) })
        haiku == first_target(model_mapping, { i \in DOMAIN model_mapping :
                           In(<<"h", "a", "i", "k", "u">>, lower(model_mapping[i].source)) })
    IN  CASE exact_match(model_mapping, claude_model).found ->
                 exact_match(model_mapping, claude_model).target
          [] partial.found -> partial.target
          [] (In(<<"s", "o", "n", "n", "e", "t", "-", "4", "-", "5">>, name) \/ In(<<"s", "o", "n", "n", "e", "t", "-", "4", ".", "5">>, lower(claude_model)))
               /\ sonnet_4_5.found -> sonnet_4_5.target
          [] (In(<<"o", "p", "u", "s", "-", "4">>, name) \/ In(<<"o", "p", "u", "s", "4">>, lower(claude_model)))
               /\ opus.found -> opus.target
          [] In(<<"s", "o", "n", "n", "e", "t", "-", "4">>, name) /\ ~In(<<"s", "o", "n", "n", "e", "t", "-", "4", "-", "5">>, name)
               /\ sonnet_4.found -> sonnet_4.target
          [] In(<<"h", "a", "i", "k", "u">>, lower(claude_model)) /\ haiku.found -> haiku.target
          [] OTHER -> claude_model

\* src/src/config.py lines 72-114: exact, then the key 'haiku', 'opus' or
\* 'sonnet' for a name holding that word, then the input itself.
map_model_name_family(model_mapping, claude_model) ==
    LET haiku == first_target(model_mapping, { i \in DOMAIN model_mapping :
                           model_mapping[i].source = <<"h", "a", "i", "k", "u">> })
        opus == first_target(model_mapping, { i \in DOMAIN model_mapping :
                           model_mapping[i].source = <<"o", "p", "u", "s">> })
        sonnet == first_target(model_mapping, { i \in DOMAIN model_mapping :
                           model_mapping[i].source = <<"s", "o", "n", "n", "e", "t">> })
    IN  CASE exact_match(model_mapping, claude_model).found ->
                 exact_match(model_mapping, claude_model).target
          [] In(<<"h", "a", "i", "k", "u">>, lower(claude_model)) /\ haiku.found -> haiku.target
          [] In(<<"o", "p", "u", "s">>, lower(claude_model)) /\ opus.found -> opus.target
          [] In(<<"s", "o", "n", "n", "e", "t">>, lower(claude_model)) /\ sonnet.found -> sonnet.target
          [] OTHER -> claude_model

\* The mappings of up to MaxRules rules, and the names asked for.
ModelMappings ==
    { m \in SeqsUpTo([ source :
                          { <<"c", "l", "a", "u", "d", "e", "-", "s", "o", "n", "n", "e", "t", "-", "4", "-", "5">>,
                            <<"s", "o", "n", "n", "e", "t", "-", "4", ".", "5">>,
                            <<"s", "o", "n", "n", "e", "t">>,
                            <<"o", "p", "u", "s">>,
                            <<"h", "a", "i", "k", "u">> },
                       target : { <<"g", "p", "t", "-", "4", "o">>, <<"o", "3">> } ], MaxRules) :
        \A i, j \in DOMAIN m : m[i].source = m[j].source => i = j }

ModelNames ==
    { <<"c", "l", "a", "u", "d", "e", "-", "s", "o", "n", "n", "e", "t", "-", "4", "-", "5">>,
      <<"C", "l", "a", "u", "d", "e", "-", "O", "p", "u", "s", "-", "4">>,
      <<"c", "l", "a", "u", "d", "e", "-", "h", "a", "i", "k", "u">>,
      <<"s", "o", "n", "n", "e", "t", "-", "4", ".", "5">>,
      <<"g", "p", "t", "-", "4", "o">> }

\* ------------------------------------------------- the translators, called
\* Init draws the function and its arguments; the action applies it.
TranslatorInit ==
    /\ NoStream /\ NoDispatch
    /\ ret = <<>>
    /\ \/ /\ fn = "translate_request"
          /\ arg \in [ anthropic_request : Requests, model_mapper : ModelMappers,
                       default_max_tokens : {DefaultMaxTokens} ]
       \/ /\ fn = "_translate_user_message"
          /\ arg \in UserMessages
       \/ /\ fn = "translate_response"
          /\ arg \in [openai_response : OpenAIResponses, original_model : ClientModels]
       \/ /\ fn = "translate_error"
          /\ arg \in [error_response : ErrorBodies, status_code : StatusCodes]
       \/ /\ fn = "map_model_name"
          /\ arg \in [ model_mapping : ModelMappings, claude_model : ModelNames,
                       config : {"src/config.py", "src/src/config.py"} ]

Apply_translate_request ==
    /\ fn = "translate_request" /\ ret = <<>>
    /\ ret' = << translate_request(arg.anthropic_request, arg.model_mapper,
                                   arg.default_max_tokens) >>
    /\ UNCHANGED <<fn, arg, streamVars, dispatchVars>>

Apply_translate_user_message ==
    /\ fn = "_translate_user_message" /\ ret = <<>>
    /\ ret' = << _translate_user_message(arg) >>
    /\ UNCHANGED <<fn, arg, streamVars, dispatchVars>>

Apply_translate_error ==
    /\ fn = "translate_error" /\ ret = <<>>
    /\ ret' = IF translate_error_raises(arg.error_response)
              THEN Raise("AttributeError")
              ELSE << translate_error(arg.error_response, arg.status_code) >>
    /\ UNCHANGED <<fn, arg, streamVars, dispatchVars>>

Apply_translate_response ==
    /\ fn = "translate_response" /\ ret = <<>>
    /\ ret' = IF translate_response_raises(arg.openai_response)
              THEN Raise("TypeError")
              ELSE << translate_response(arg.openai_response, arg.original_model) >>
    /\ UNCHANGED <<fn, arg, streamVars, dispatchVars>>

\* Either version of Config.map_model_name.
Apply_map_model_name ==
    /\ fn = "map_model_name" /\ ret = <<>>
    /\ ret' = IF arg.config = "src/config.py"
              THEN << map_model_name(arg.model_mapping, arg.claude_model) >>
              ELSE << map_model_name_family(arg.model_mapping, arg.claude_model) >>
    /\ UNCHANGED <<fn, arg, streamVars, dispatchVars>>

TranslatorNext ==
    \/ Apply_translate_request
    \/ Apply_translate_user_message
    \/ Apply_translate_error
    \/ Apply_translate_response
    \/ Apply_map_model_name

TranslatorSpec == TranslatorInit /\ [][TranslatorNext]_vars

\* ================================================================ dispatcher
\* src/handlers/proxy_handler.py, messages(), and create_app of src/app.py.
\* An Authorization header is its scheme and its token ('' and '' when absent).
MaxStreamLines == 1

Authorization(scheme, credentials) == [scheme |-> scheme, token |-> credentials]

\* app.py lines 51-74: the OAuth manager exists when OAuth is configured, the
\* proxy is not in dev mode and the initial fetch did not raise.
create_app(settings, init_raised) ==
    [ proxy_access_token |-> "proxy-token",
      use_placeholder_mode |-> settings.use_placeholder_mode,
      dev_mode |-> settings.dev_mode,
      oauth_configured |-> settings.oauth_configured,
      api_key_configured |-> settings.api_key_configured,
      model_mapper |-> settings.model_mapper,
      oauth_manager |-> settings.oauth_configured /\ ~settings.dev_mode /\ ~init_raised ]

Configs ==
    { create_app(settings, init_raised) :
        settings \in [ use_placeholder_mode : BOOLEAN, dev_mode : BOOLEAN,
                       oauth_configured : BOOLEAN, api_key_configured : BOOLEAN,
                       model_mapper : ModelMappers ],
        init_raised \in BOOLEAN }

\* What oauth_manager.get_token() does: a token, None ("" here), or an exception.
GetTokenOutcomes == {"oauth-token", "", "raises"}

\* The request bodies: not JSON, empty, a JSON value that is no object, and
\* objects (model, stream, and whether translate_request accepts it).
Bodies ==
    [ kind : {"malformed", "empty", "nonobject"}, model : {"claude-sonnet-4"},
      stream : {FALSE}, translatable : {TRUE} ]
    \cup [ kind : {"object"}, model : ClientModels, stream : BOOLEAN,
           translatable : BOOLEAN ]

ClientRequests ==
    [ x_api_key : {"", "proxy-token", "wrong"},
      authorization : { Authorization("", ""), Authorization("Bearer", "proxy-token"),
                        Authorization("Bearer", "wrong"), Authorization("Bearer", ""),
                        Authorization("Basic", "proxy-token") },
      body : Bodies ]

\* What the upstream POST does when it gives no 2xx answer: it raises, it
\* answers 2xx with a body that is not JSON, or it answers an error status with
\* a JSON body or with text.
UpstreamFailures ==
    [ kind : {"timeout", "connection_error", "exception", "invalid_json"},
      status : {0}, is_json : {FALSE},
      body : {[type |-> "", has_error |-> FALSE,
               error |-> ErrorInfo("dict", {}, "", "", "", ""),
               message |-> "", detail |-> ""]} ]
    \cup [ kind : {"error_status"}, status : {429, 500}, is_json : BOOLEAN,
           body : [ type : {"", "error"}, has_error : {TRUE},
                    error : { ErrorInfo("dict", {"type", "message"}, "rate_limit_error",
                                        "", "Rate limit hit", ""),
                              ErrorInfo("str", {}, "", "", "", "boom"),
                              ErrorInfo("null", {}, "", "", "", "") },
                    message : {""}, detail : {""} ] ]

UpstreamResponses ==
    [ has_choices : {TRUE}, model : UpstreamModels, content : {"Hello"},
      tool_calls : {<<>>}, finish_reason : {"stop", None},
      prompt_tokens : {3}, completion_tokens : {2},
      nulls : { {}, {"usage"} } ]

\* The first lines of an upstream stream.
StreamLines ==
    { DeltaChunk("Hi", <<>>, None), DeltaChunk("", <<>>, "stop"),
      UsageChunk(3, 2), ErrorChunk("upstream failed"), Chunk("done") }

DispatchInit ==
    /\ NoStream /\ NoCall
    /\ config \in Configs
    /\ request \in ClientRequests
    /\ step = "received"
    /\ headers = Authorization("", "")
    /\ counts = [parsed |-> 0, translated |-> 0, get_token |-> 0, posts |-> 0]
    /\ token = None
    /\ response = [status |-> 0, kind |-> "none", body |-> None]
    /\ upstream = [kind |-> "none", status |-> 0]
    /\ streams = <<>>
    /\ oauth = None /\ log_manager = None

verify_api_key_any(req, cfg) ==
    LET api_key == IF req.x_api_key # "" THEN req.x_api_key
                   ELSE IF req.authorization.scheme = "Bearer" THEN req.authorization.token
                   ELSE ""
    IN  IF api_key = "" THEN [valid |-> FALSE, message |-> "Missing API key"]
        ELSE [valid |-> TRUE, message |-> ""]

\* Lines 35-54.
verify_api_key(req, cfg) ==
    LET api_key == IF req.x_api_key # "" THEN req.x_api_key
                   ELSE IF req.authorization.scheme = "Bearer" THEN req.authorization.token
                   ELSE ""
    IN  IF api_key = "" THEN [valid |-> FALSE, message |-> "Missing API key"]
        ELSE IF api_key # cfg.proxy_access_token
             THEN [valid |-> FALSE, message |-> "Invalid API key"]
             ELSE [valid |-> TRUE, message |-> ""]

Reply(status, kind, body) == [status |-> status, kind |-> kind, body |-> body]

\* Lines 64-70.
VerifyApiKey ==
    /\ step = "received"
    /\ IF verify_api_key(request, config).valid
       THEN step' = "verified" /\ UNCHANGED response
       ELSE /\ step' = "done"
            /\ response' = Reply(401, "error",
                                 error_envelope("authentication_error",
                                                verify_api_key(request, config).message))
    /\ UNCHANGED <<config, request, streams, oauth, log_manager, upstream, headers, counts, token, streamVars, callVars>>

\* Lines 72-97: get_json, the empty-body test, original_model and is_streaming.
\* A JSON value that is no object has no .get: line 92 raises outside every
\* try, and the framework answers 500.
ParseBody ==
    /\ step = "verified"
    /\ counts' = [counts EXCEPT !.parsed = @ + 1]
    /\ CASE request.body.kind = "malformed" ->
              /\ step' = "done"
              /\ response' = Reply(400, "error",
                                   error_envelope("invalid_request_error", "Invalid JSON"))
         [] request.body.kind = "empty" ->
              /\ step' = "done"
              /\ response' = Reply(400, "error",
                                   error_envelope("invalid_request_error", "Empty request body"))
         [] request.body.kind = "nonobject" ->
              /\ step' = "done"
              /\ response' = Reply(500, "unhandled", None)
         [] OTHER -> step' = "parsed" /\ UNCHANGED response
    /\ UNCHANGED <<config, request, streams, oauth, log_manager, upstream, headers, token, streamVars, callVars>>

\* streaming.py lines 328-369: the canned stream.
generate_placeholder_stream(model) ==
    << [type |-> "message_start", model |-> model, input_tokens |-> 100,
        output_tokens |-> 0],
       [type |-> "content_block_start", index |-> 0,
        content_block |-> [type |-> "text", text |-> ""]],
       [type |-> "content_block_delta", index |-> 0,
        delta |-> [type |-> "text_delta", text |-> "placeholder "]],
       [type |-> "content_block_delta", index |-> 0,
        delta |-> [type |-> "text_delta", text |-> "response"]],
       [type |-> "content_block_stop", index |-> 0],
       [type |-> "message_delta", stop_reason |-> "end_turn", stop_sequence |-> None,
        output_tokens |-> 2],
       [type |-> "message_stop"] >>

\* openai_to_anthropic.py lines 185-207.
build_placeholder_response(model) ==
    [ type |-> "message", role |-> "assistant", model |-> model,
      content |-> <<[type |-> "text", text |-> "placeholder response"]>>,
      stop_reason |-> "end_turn", stop_sequence |-> None,
      input_tokens |-> 100, output_tokens |-> 20 ]

\* Lines 99-108 and 311-330.
PlaceholderResponse ==
    /\ step = "parsed"
    /\ config.use_placeholder_mode
    /\ step' = "done"
    /\ IF request.body.stream
       THEN /\ response' = Reply(200, "placeholder_stream", None)
            /\ out' = generate_placeholder_stream(request.body.model)
       ELSE /\ response' = Reply(200, "placeholder",
                                 build_placeholder_response(request.body.model))
            /\ UNCHANGED out
    /\ UNCHANGED <<config, request, streams, oauth, log_manager, upstream, headers, counts, token, callVars,
                   state, pc, nread, line, closed, logged>>

\* The body as translate_request receives it.
anthropic_request_of(body) ==
    [ model |-> body.model, system |-> NoContent,
      messages |-> <<[role |-> "user", content |-> Text(<<"hi">>)]>>,
      has_max_tokens |-> FALSE, max_tokens |-> 100,
      has_stream |-> TRUE, stream |-> body.stream ]

\* Lines 110-122: translate_request, and 400 when it raises.
TranslateRequest ==
    /\ step = "parsed"
    /\ ~config.use_placeholder_mode
    /\ counts' = [counts EXCEPT !.translated = @ + 1]
    /\ IF request.body.translatable
       THEN /\ step' = "translated"
            /\ fn' = "translate_request"
            /\ arg' = [ anthropic_request |-> anthropic_request_of(request.body),
                        model_mapper |-> config.model_mapper,
                        default_max_tokens |-> DefaultMaxTokens ]
            /\ ret' = << translate_request(anthropic_request_of(request.body),
                                           config.model_mapper, DefaultMaxTokens) >>
            /\ UNCHANGED response
       ELSE /\ step' = "done"
            /\ response' = Reply(400, "error",
                                 error_envelope("invalid_request_error", "Translation error"))
            /\ UNCHANGED callVars
    /\ UNCHANGED <<config, request, streams, oauth, log_manager, upstream, headers, token, streamVars>>

_add_authorization_key_first(cfg, get_token) ==
    IF cfg.dev_mode THEN Authorization("Bearer", "dev-mock-token")
    ELSE IF cfg.api_key_configured
         THEN Authorization("Bearer", "target-api-key")
         ELSE IF cfg.oauth_manager /\ get_token \notin {"", "raises"}
              THEN Authorization("Bearer", get_token)
              ELSE Authorization("", "")

\* A dispatcher that does not fall back to the static key once an OAuth
\* manager exists.
_add_authorization_no_fallback(cfg, get_token) ==
    IF cfg.dev_mode THEN Authorization("Bearer", "dev-mock-token")
    ELSE IF cfg.oauth_manager
         THEN IF get_token \notin {"", "raises"}
              THEN Authorization("Bearer", get_token)
              ELSE Authorization("", "")
         ELSE IF cfg.api_key_configured
              THEN Authorization("Bearer", "target-api-key")
              ELSE Authorization("", "")

\* Lines 160-184.  get_token is what oauth_manager.get_token() does when called.
_add_authorization(cfg, get_token) ==
    IF cfg.dev_mode THEN Authorization("Bearer", "dev-mock-token")
    ELSE IF cfg.oauth_manager /\ get_token \notin {"", "raises"}
         THEN Authorization("Bearer", get_token)
         ELSE IF cfg.api_key_configured
              THEN Authorization("Bearer", "target-api-key")
              ELSE Authorization("", "")

\* Lines 124-129.
AddAuthorization ==
    /\ step = "translated"
    /\ \E get_token \in GetTokenOutcomes :
          /\ headers' = _add_authorization(config, get_token)
          /\ IF ~config.dev_mode /\ config.oauth_manager
             THEN /\ token' = get_token
                  /\ counts' = [counts EXCEPT !.get_token = @ + 1]
             ELSE UNCHANGED <<token, counts>>
    /\ step' = "authorized"
    /\ UNCHANGED <<config, request, streams, oauth, log_manager, upstream, response, streamVars, callVars>>

\* A dispatcher that answers every upstream failure with 502.
failure_reply_all_502(failure) ==
    Reply(502, "error", error_envelope("api_error", "Connection error"))

\* Lines 131-157: what the client gets when the upstream gives no 2xx answer.
failure_reply(failure) ==
    CASE failure.kind = "timeout" ->
             Reply(529, "error", error_envelope("overloaded_error", "Request timed out"))
      [] failure.kind = "connection_error" ->
             Reply(502, "error", error_envelope("api_error", "Connection error"))
      [] failure.kind = "exception" ->
             Reply(500, "error", error_envelope("api_error", "Internal error"))
      [] failure.kind = "invalid_json" ->
             Reply(502, "error", error_envelope("api_error", "Invalid JSON from target"))
      [] failure.kind = "error_status" /\ failure.is_json
           /\ translate_error_raises(failure.body) ->
             Reply(500, "error", error_envelope("api_error", "Internal error"))
      [] OTHER ->
             Reply(failure.status, "error",
                   translate_error(
                       IF failure.is_json THEN failure.body
                       ELSE [type |-> "", has_error |-> TRUE,
                             error |-> ErrorInfo("dict", {"message"}, "", "",
                                                 "Unknown error", ""),
                             message |-> "", detail |-> ""],
                       failure.status))

\* A dispatcher that posts again after a failed POST.
HandleNonStreaming_retry ==
    /\ step = "authorized"
    /\ ~request.body.stream
    /\ counts' = [counts EXCEPT !.posts = @ + 1]
    /\ \/ \E failure \in UpstreamFailures :
             /\ upstream' = failure
             /\ response' = failure_reply(failure)
             /\ step' = IF counts.posts = 0 THEN "authorized" ELSE "done"
       \/ \E openai_response \in UpstreamResponses :
             /\ upstream' = [kind |-> "ok", status |-> 200, body |-> openai_response]
             /\ response' = Reply(200, "message",
                                  translate_response(openai_response, request.body.model))
             /\ step' = "done"
    /\ UNCHANGED <<config, request, streams, oauth, log_manager, headers, token, streamVars, callVars>>

\* Lines 139-157 and 187-230: the upstream POST of a non-streaming request.
HandleNonStreaming ==
    /\ step = "authorized"
    /\ ~request.body.stream
    /\ counts' = [counts EXCEPT !.posts = @ + 1]
    /\ step' = "done"
    /\ \/ \E failure \in UpstreamFailures :
             /\ upstream' = failure
             /\ response' = failure_reply(failure)
       \/ \E openai_response \in UpstreamResponses :
             /\ upstream' = [kind |-> "ok", status |-> 200, body |-> openai_response]
             /\ response' = IF translate_response_raises(openai_response)
                            THEN failure_reply([kind |-> "exception"])
                            ELSE Reply(200, "message",
                                       translate_response(openai_response,
                                                          request.body.model))
    /\ UNCHANGED <<config, request, streams, oauth, log_manager, headers, token, streamVars, callVars>>

StreamTranslator_default(original_model) == StreamState

\* streaming.py lines 49-50.
StreamTranslator(original_model) == [StreamState EXCEPT !.model = original_model]

\* Lines 133-137, 143-157 and 233-258: the upstream POST of a streaming
\* request; on 2xx the translator is built and the response is a stream.
HandleStreaming ==
    /\ step = "authorized"
    /\ request.body.stream
    /\ counts' = [counts EXCEPT !.posts = @ + 1]
    /\ \/ /\ \E failure \in UpstreamFailures :
                /\ failure.kind # "invalid_json"
                /\ upstream' = failure
                /\ response' = failure_reply(failure)
          /\ step' = "done"
          /\ UNCHANGED <<state, pc>>
       \/ /\ upstream' = [kind |-> "ok", status |-> 200]
          /\ response' = Reply(200, "stream", None)
          /\ step' = "streaming"
          /\ state' = StreamTranslator(request.body.model)
          /\ pc' = "streaming"
    /\ UNCHANGED <<config, request, streams, oauth, log_manager, headers, token, callVars,
                   out, nread, line, closed, logged>>

\* Lines 260-267: generate() reads a line and yields its events.
GenerateEvents ==
    /\ step = "streaming"
    /\ nread < MaxStreamLines
    /\ \E chunk \in StreamLines :
          /\ state' = translate_chunk(state, chunk).state
          /\ out' = out \o translate_chunk(state, chunk).events
          /\ line' = chunk.kind
    /\ nread' = nread + 1
    /\ UNCHANGED <<pc, closed, logged, dispatchVars, callVars>>

\* A generator that swallows the exception.
GenerateRaises_silent ==
    /\ step = "streaming"
    /\ \E chunk \in RaisingChunks :
          /\ translate_chunk(state, chunk).raised
          /\ line' = chunk.kind
    /\ pc' = "error"
    /\ closed' = TRUE
    /\ step' = "done"
    /\ UNCHANGED <<state, out, nread, logged, callVars,
                   config, request, headers, counts, token, upstream, streams, oauth, log_manager,
                   response>>

\* Lines 262-265 and 281-298: translate_chunk raises on a line; the except
\* branch yields one error event, the finally branch closes the upstream
\* response, and the generator returns.
GenerateRaises ==
    /\ step = "streaming"
    /\ \E chunk \in RaisingChunks :
          /\ translate_chunk(state, chunk).raised
          /\ line' = chunk.kind
    /\ out' = Append(out, streaming_error_event)
    /\ pc' = "error"
    /\ closed' = TRUE
    /\ step' = "done"
    /\ UNCHANGED <<state, nread, logged, callVars,
                   config, request, headers, counts, token, upstream, streams, oauth, log_manager,
                   response>>

\* Lines 262, 269-277 and 297-298: the upstream stream ends; the generator
\* logs, closes the upstream response and returns.
GenerateCompletes ==
    /\ step = "streaming"
    /\ pc' = "complete"
    /\ logged' = TRUE
    /\ closed' = TRUE
    /\ step' = "done"
    /\ UNCHANGED <<state, out, nread, line, callVars,
                   config, request, headers, counts, token, upstream, streams, oauth, log_manager,
                   response>>

DispatchNext ==
    \/ VerifyApiKey
    \/ ParseBody
    \/ PlaceholderResponse
    \/ TranslateRequest
    \/ AddAuthorization
    \/ HandleNonStreaming
    \/ HandleStreaming
    \/ GenerateEvents
    \/ GenerateRaises
    \/ GenerateCompletes

DispatchSpec == DispatchInit /\ [][DispatchNext]_vars

\* ======================================================== concurrent streams
\* Two streaming requests in flight; the lines of their upstream responses are
\* translated in any interleaving.
MaxInterleaved == 2

\* One translator shared by all responses.
translator_shared(r) == 1

\* proxy_handler.py line 258: _handle_streaming builds a StreamTranslator of
\* its own in every call; generate() closes over it.
translator_of(r) == r

\* The events of one response translated alone, by a translator of its own.
RECURSIVE translate_alone(_, _)
translate_alone(st, lines) ==
    IF lines = <<>> THEN <<>>
    ELSE translate_chunk(st, Head(lines)).events
           \o translate_alone(translate_chunk(st, Head(lines)).state, Tail(lines))

StreamsInit ==
    /\ NoStream /\ NoCall
    /\ config = None /\ request = None /\ step = "idle"
    /\ headers = None /\ counts = None /\ token = None /\ response = None
    /\ upstream = None /\ oauth = None /\ log_manager = None
    /\ streams = [ translators |-> [ t \in {1, 2} |->
                                       StreamTranslator(IF t = 1 THEN "claude-sonnet-4"
                                                        ELSE "claude-opus-4") ],
                   responses |-> [ r \in {1, 2} |-> [out |-> <<>>, lines |-> <<>>] ] ]

\* Lines 262-267 in the generator of response r: one line is read, translated
\* by the translator of r, and its events are yielded to the client of r.
TranslateLine(r) ==
    /\ Len(streams.responses[r].lines) < MaxInterleaved
    /\ \E chunk \in StreamLines :
          streams' =
            [streams EXCEPT
               !.translators[translator_of(r)] =
                   translate_chunk(streams.translators[translator_of(r)], chunk).state,
               !.responses[r] =
                   [out |-> @.out \o translate_chunk(streams.translators[translator_of(r)],
                                                     chunk).events,
                    lines |-> Append(@.lines, chunk)]]
    /\ UNCHANGED <<streamVars, callVars, config, request, step, headers, counts, token,
                   upstream, oauth, log_manager, response>>

StreamsSpec == StreamsInit /\ [][\E r \in {1, 2} : TranslateLine(r)]_vars

\* ============================================================ the token cache
\* oauth_manager.py is not part of the sources: get_token() follows section
\* 4.6 of the specification. Time is counted in ticks; token 0 is null.
MaxCallers == 2
MaxClock == 3
MaxIssued == 2

\* A deployment that builds a manager for every request.
oauth_manager_per_request(caller) == caller

\* app.py lines 51-74 and proxy_handler.py lines 160-176: create_app builds
\* one OAuthManager, and every request calls get_token() on that one.
oauth_manager_of(caller) == 1

token_valid_late(entry, now) == entry.token # 0 /\ now <= entry.expires_at

\* "if now < expires_at, return the cached token".
token_valid(entry, now) == entry.token # 0 /\ now < entry.expires_at

TokenInit ==
    /\ NoStream /\ NoCall
    /\ config = None /\ request = None /\ step = "idle"
    /\ headers = None /\ counts = None /\ token = None /\ response = None
    /\ upstream = None /\ streams = <<>> /\ log_manager = None
    /\ \E refresh_buffer \in {0, 1} :
          oauth = [ now |-> 0, issued |-> 0, refresh_buffer |-> refresh_buffer,
                    lock |-> [m \in 1..MaxCallers |-> 0],
                    entry |-> [m \in 1..MaxCallers |-> [token |-> 0, expires_at |-> 0]],
                    pc |-> [c \in 1..MaxCallers |-> "idle"],
                    result |-> [c \in 1..MaxCallers |-> 0] ]

\* A request calls get_token() and waits for the manager's lock.
GetToken(c) ==
    /\ oauth.pc[c] \in {"idle", "returned"}
    /\ oauth' = [oauth EXCEPT !.pc[c] = "acquire", !.result[c] = 0]
    /\ UNCHANGED <<streamVars, callVars, config, request, step, headers, counts, token,
                   upstream, streams, log_manager, response>>

AcquireLock(c) ==
    /\ oauth.pc[c] = "acquire"
    /\ oauth.lock[oauth_manager_of(c)] = 0
    /\ oauth' = [oauth EXCEPT !.pc[c] = "locked", !.lock[oauth_manager_of(c)] = c]
    /\ UNCHANGED <<streamVars, callVars, config, request, step, headers, counts, token,
                   upstream, streams, log_manager, response>>

\* Under the lock: a valid entry is returned; otherwise the entry is discarded
\* and the token endpoint is asked, the lock being held.
CheckCache(c) ==
    /\ oauth.pc[c] = "locked"
    /\ IF token_valid(oauth.entry[oauth_manager_of(c)], oauth.now)
       THEN oauth' = [oauth EXCEPT !.pc[c] = "returned",
                                   !.result[c] = oauth.entry[oauth_manager_of(c)].token,
                                   !.lock[oauth_manager_of(c)] = 0]
       ELSE /\ oauth.issued < MaxIssued
            /\ oauth' = [oauth EXCEPT !.pc[c] = "fetching",
                                      !.entry[oauth_manager_of(c)] =
                                          [token |-> 0, expires_at |-> 0]]
    /\ UNCHANGED <<streamVars, callVars, config, request, step, headers, counts, token,
                   upstream, streams, log_manager, response>>

\* The token endpoint answers, expires_at = now + expires_in - refresh_buffer,
\* or the refresh fails and get_token() returns null.
RefreshEnds(c) ==
    /\ oauth.pc[c] = "fetching"
    /\ \/ \E expires_in \in {1, 3} :
             oauth' = [oauth EXCEPT !.issued = @ + 1,
                                    !.entry[oauth_manager_of(c)] =
                                        [token |-> oauth.issued + 1,
                                         expires_at |-> oauth.now + expires_in
                                                         - oauth.refresh_buffer],
                                    !.pc[c] = "returned",
                                    !.result[c] = oauth.issued + 1,
                                    !.lock[oauth_manager_of(c)] = 0]
       \/ oauth' = [oauth EXCEPT !.pc[c] = "returned", !.result[c] = 0,
                                 !.lock[oauth_manager_of(c)] = 0]
    /\ UNCHANGED <<streamVars, callVars, config, request, step, headers, counts, token,
                   upstream, streams, log_manager, response>>

Tick ==
    /\ oauth.now < MaxClock
    /\ oauth' = [oauth EXCEPT !.now = @ + 1]
    /\ UNCHANGED <<streamVars, callVars, config, request, step, headers, counts, token,
                   upstream, streams, log_manager, response>>

TokenNext ==
    \/ \E c \in 1..MaxCallers : GetToken(c)
    \/ \E c \in 1..MaxCallers : AcquireLock(c)
    \/ \E c \in 1..MaxCallers : CheckCache(c)
    \/ \E c \in 1..MaxCallers : RefreshEnds(c)
    \/ Tick

TokenSpec == TokenInit /\ [][TokenNext]_vars

\* ============================================================= the usage log

MaxThreads == 2
MaxCalls == 3
MaxLogs == 2

\* logger_manager.py lines 12-22 and 58-62: deque(maxlen=max_logs) and the
\* counters of UsageStats that log_api_call updates for every call.
LoggerManager(max_logs) ==
    [ max_logs |-> max_logs,
      api_calls |-> <<>>,
      usage |-> [total_requests |-> 0, successful_requests |-> 0, failed_requests |-> 0] ]

\* deque.appendleft with maxlen: the new entry is first, the oldest is dropped.
appendleft(api_calls, entry, maxlen) ==
    IF Len(api_calls) < maxlen THEN <<entry>> \o api_calls
    ELSE SubSeq(<<entry>> \o api_calls, 1, maxlen)

\* app.py line 48 builds the one LoggerManager; line 144 (threaded=True) gives
\* each request its own thread.  calls and completed count the calls of
\* log_api_call entered and returned from.
LoggerInit ==
    /\ NoStream /\ NoCall
    /\ config = None /\ request = None /\ step = "idle"
    /\ headers = None /\ counts = None /\ token = None /\ response = None
    /\ upstream = None /\ streams = <<>> /\ oauth = None
    /\ \E max_logs \in 1..MaxLogs :
          log_manager = [ manager |-> LoggerManager(max_logs),
                          calls |-> 0,
                          completed |-> 0,
                          threads |-> [t \in 1..MaxThreads |->
                                         [pc |-> "idle", status |-> 0,
                                          counter |-> "none", loaded |-> 0]] ]

\* Lines 64-90: thread t enters log_api_call, builds its entry and puts it at
\* the head of api_calls.  Line 93 is next.
LogApiCall(t) ==
    /\ log_manager.threads[t].pc = "idle"
    /\ log_manager.calls < MaxCalls
    /\ \E status \in {200, 500} :
          log_manager' =
             [log_manager EXCEPT
                !.calls = @ + 1,
                !.manager.api_calls =
                    appendleft(@, [call |-> log_manager.calls + 1, status |-> status],
                               log_manager.manager.max_logs),
                !.threads[t] = [pc |-> "load", status |-> status,
                                counter |-> "total_requests", loaded |-> 0]]
    /\ UNCHANGED <<streamVars, callVars, config, request, step, headers, counts, token,
                   upstream, streams, oauth, response>>

\* Lines 93, 95, 101: the left operand of "self.usage.<counter> += 1" is read.
LoadCounter(t) ==
    /\ log_manager.threads[t].pc = "load"
    /\ log_manager' =
          [log_manager EXCEPT
             !.threads[t].loaded = log_manager.manager.usage[log_manager.threads[t].counter],
             !.threads[t].pc = "store"]
    /\ UNCHANGED <<streamVars, callVars, config, request, step, headers, counts, token,
                   upstream, streams, oauth, response>>

\* Lines 93-108: the sum is stored; after total_requests comes the counter that
\* line 94 chooses, after that one the call returns.
StoreCounter(t) ==
    /\ log_manager.threads[t].pc = "store"
    /\ log_manager' =
          [log_manager EXCEPT
             !.manager.usage[log_manager.threads[t].counter] =
                 log_manager.threads[t].loaded + 1,
             !.threads[t] =
                 IF log_manager.threads[t].counter = "total_requests"
                 THEN [@ EXCEPT !.pc = "load",
                                !.counter = IF log_manager.threads[t].status < 400
                                            THEN "successful_requests"
                                            ELSE "failed_requests"]
                 ELSE [@ EXCEPT !.pc = "idle", !.counter = "none"],
             !.completed = IF log_manager.threads[t].counter = "total_requests"
                           THEN @ ELSE @ + 1]
    /\ UNCHANGED <<streamVars, callVars, config, request, step, headers, counts, token,
                   upstream, streams, oauth, response>>

LoggerNext ==
    \/ \E t \in 1..MaxThreads : LogApiCall(t)
    \/ \E t \in 1..MaxThreads : LoadCounter(t)
    \/ \E t \in 1..MaxThreads : StoreCounter(t)

LoggerSpec == LoggerInit /\ [][LoggerNext]_vars

\* =================================================================== claims
Positions == 1..Len(out)

IsBlockStart(e) == e.type = "content_block_start"
IsBlockStop(e)  == e.type = "content_block_stop"
IsToolStart(e)  == IsBlockStart(e) /\ e.content_block.type = "tool_use"
IsJsonDelta(e)  == e.type = "content_block_delta" /\ e.delta.type = "input_json_delta"
HasEvent(t)     == \E p \in Positions : out[p].type = t
EndsWith(t)     == out # <<>> /\ out[Len(out)].type = t

\* The tool_use block headers emitted so far for upstream tool call k, which the
\* inputs name ToolNames[k + 1].
ToolStartsOf(k) ==
    { p \in Positions : IsToolStart(out[p]) /\ out[p].content_block.name = ToolNames[k + 1] }

\* The input_json_delta events emitted so far for fragments of tool call k.
JsonDeltasOf(k) ==
    { p \in Positions : /\ IsJsonDelta(out[p])
                        /\ out[p].delta.partial_json # <<>>
                        /\ out[p].delta.partial_json[1] \in {FragA[k + 1], FragB[k + 1]} }

\* C1: once 'data: [DONE]' has ended the stream, every content_block_start with
\* index i is followed by exactly one content_block_stop with index i, and every
\* content_block_stop has an earlier content_block_start with its index.
C1_BlocksBalanced ==
    (line = "done" /\ pc = "streaming") =>
        /\ \A p \in Positions : IsBlockStart(out[p]) =>
               Cardinality({ q \in Positions : /\ q > p
                                               /\ IsBlockStop(out[q])
                                               /\ out[q].index = out[p].index }) = 1
        /\ \A q \in Positions : IsBlockStop(out[q]) =>
               \E p \in Positions : /\ p < q
                                    /\ IsBlockStart(out[p])
                                    /\ out[p].index = out[q].index

\* C2: in a response that met no exception, the first event emitted is
\* message_start and message_start is emitted exactly once.
C2_MessageStartFirst ==
    (out # <<>> /\ pc \in {"streaming", "complete"}) =>
        /\ out[1].type = "message_start"
        /\ Cardinality({ p \in Positions : out[p].type = "message_start" }) = 1

\* C3: message_stop is the last event: nothing is emitted after it.
C3_MessageStopLast ==
    \A p \in Positions : out[p].type = "message_stop" => p = Len(out)

\* C4: a content_block_start is never emitted while the block started before it
\* has not received its content_block_stop.
C4_OneBlockOpen ==
    \A p, q \in Positions :
        (p < q /\ IsBlockStart(out[p]) /\ IsBlockStart(out[q])) =>
            \E r \in Positions : p < r /\ r < q /\ IsBlockStop(out[r])

\* C5: for every upstream tool-call index at most one content_block_start of
\* type tool_use is emitted, only once the accumulated name of that tool call
\* is non-empty, and its header carries that name.
C5_OneNamedToolStart ==
    /\ \A p \in Positions : IsToolStart(out[p]) =>
           /\ out[p].content_block.name # ""
           /\ \E k \in DOMAIN state.accumulated_tool_calls :
                  /\ state.accumulated_tool_calls[k].name = out[p].content_block.name
                  /\ state.accumulated_tool_calls[k].block_started
                  /\ out[p].content_block.name = ToolNames[k + 1]
    /\ \A k \in 0..MaxToolIndex : Cardinality(ToolStartsOf(k)) <= 1

\* C5 witness: a tool call whose fragment came before its name has had its
\* header emitted.
C5_Witness ==
    \E k \in DOMAIN state.accumulated_tool_calls :
        /\ ToolStartsOf(k) # {}
        /\ Len(state.accumulated_tool_calls[k].input_json) > 1

\* C6: an input_json_delta of a tool call is emitted only after the
\* content_block_start of that tool call; while block_started is false its
\* fragments are buffered in input_json and no delta has been emitted for it.
C6_NoDeltaBeforeStart ==
    /\ \A k \in 0..MaxToolIndex : \A p \in JsonDeltasOf(k) :
           \E q \in ToolStartsOf(k) : q < p
    /\ \A k \in DOMAIN state.accumulated_tool_calls :
           ~state.accumulated_tool_calls[k].block_started => JsonDeltasOf(k) = {}

\* C6 witness: a fragment is buffered for a tool call whose block has not started.
C6_Witness ==
    \E k \in DOMAIN state.accumulated_tool_calls :
        /\ ~state.accumulated_tool_calls[k].block_started
        /\ state.accumulated_tool_calls[k].input_json # <<>>

\* C7: block indices are never reused: no two content_block_start events carry
\* the same index, and none carries an index above current_block_index.
C7_IndicesNeverReused ==
    /\ \A p, q \in Positions :
           (p < q /\ IsBlockStart(out[p]) /\ IsBlockStart(out[q])) =>
               out[p].index < out[q].index
    /\ \A p \in Positions :
           IsBlockStart(out[p]) => out[p].index <= state.current_block_index

\* The step that handles a 'data: [DONE]' line and yields all its events.
DoneStep == nread' = nread + 1 /\ line' = "done" /\ pc' = "streaming"

\* C8: on 'data: [DONE]' exactly two events are emitted, message_delta then
\* message_stop; message_delta carries the recorded stop_reason (end_turn if
\* none), stop_sequence null and the recorded output token count.
C8_StreamEndOnDone ==
    [][ DoneStep =>
          out' = out \o
            << [ type |-> "message_delta",
                 stop_reason   |-> IF state.stop_reason = None
                                   THEN "end_turn" ELSE state.stop_reason,
                 stop_sequence |-> None,
                 output_tokens |-> state.output_tokens ],
               [ type |-> "message_stop" ] >> ]_vars

\* C8 witness: [DONE] was handled after a finish_reason and a usage chunk.
C8_Witness ==
    /\ line = "done" /\ pc = "streaming"
    /\ state.stop_reason \notin {None, "end_turn"}
    /\ state.output_tokens > 0
    /\ EndsWith("message_stop")

\* C9: when the upstream closes without 'data: [DONE]' and no error event was
\* emitted, the response still ends with message_delta then message_stop.
C9_StreamEndOnClose ==
    (pc = "complete" /\ ~HasEvent("error")) =>
        /\ Len(out) >= 2
        /\ out[Len(out)].type = "message_stop"
        /\ out[Len(out) - 1].type = "message_delta"

\* C10: an error event is final: nothing is emitted after it.
C10_ErrorIsFinal ==
    \A p \in Positions : out[p].type = "error" => p = Len(out)

\* ------------------------------------------------------ request translator
Returned(f) == fn = f /\ Len(ret) = 1
SystemPositions(messages) == { i \in 1..Len(messages) : messages[i].role = "system" }

\* C11: the messages list produced by translate_request holds at most one
\* message of role system, and that one is the first of the list, whatever the
\* system field and whatever the roles of the input messages.
C11_SystemOnlyFirst ==
    Returned("translate_request") => SystemPositions(ret[1].messages) \subseteq {1}

\* C11 witness: a request with a system string and an input message of role
\* system, translated to a longer list whose only system message is the first.
C11_Witness ==
    /\ Returned("translate_request")
    /\ arg.anthropic_request.system.kind = "str"
    /\ arg.anthropic_request.system.v = <<"S">>
    /\ \E i \in 1..Len(arg.anthropic_request.messages) :
           arg.anthropic_request.messages[i].role = "system"
    /\ Len(ret[1].messages) > 1
    /\ SystemPositions(ret[1].messages) = {1}

\* C12: the result of translate_request carries max_tokens, equal to the
\* request's max_tokens when the request has one and to default_max_tokens
\* when it has none.
C12_MaxTokensSet ==
    Returned("translate_request") =>
        ret[1].max_tokens = IF arg.anthropic_request.has_max_tokens
                            THEN arg.anthropic_request.max_tokens
                            ELSE arg.default_max_tokens

\* C12 witness: a request with max_tokens = 100 keeps it.
C12_Witness ==
    /\ Returned("translate_request")
    /\ arg.anthropic_request.has_max_tokens
    /\ ret[1].max_tokens = 100
    /\ ret[1].max_tokens # arg.default_max_tokens

ToolResultBlocks(content) == SelectSeq(content, LAMBDA b : b.type = "tool_result")
ToolMessages(messages) == SelectSeq(messages, LAMBDA m : m.role = "tool")

\* C13: for a user message with a block list, every tool message made from a
\* tool_result block comes before the user message made from the text and
\* image blocks, and the tool messages are in the order of their blocks.
C13_ToolMessagesFirst ==
    Returned("_translate_user_message") =>
        /\ \A i, j \in 1..Len(ret[1]) :
               (i < j /\ ret[1][j].role = "tool") => ret[1][i].role = "tool"
        /\ Len(ToolMessages(ret[1])) = Len(ToolResultBlocks(arg.content.v))
        /\ \A i \in 1..Len(ToolMessages(ret[1])) :
               ToolMessages(ret[1])[i].tool_call_id
                   = ToolResultBlocks(arg.content.v)[i].tool_use_id

\* C13 witness: text first, then the tool results B and A: the output is tool
\* B, tool A, user.
C13_Witness ==
    /\ Returned("_translate_user_message")
    /\ Len(arg.content.v) = 3
    /\ arg.content.v[1].type = "text"
    /\ arg.content.v[2].type = "tool_result" /\ arg.content.v[2].tool_use_id = "toolu_B"
    /\ arg.content.v[3].type = "tool_result" /\ arg.content.v[3].tool_use_id = "toolu_A"
    /\ Len(ret[1]) = 3
    /\ ret[1][1].role = "tool" /\ ret[1][1].tool_call_id = "toolu_B"
    /\ ret[1][2].role = "tool" /\ ret[1][2].tool_call_id = "toolu_A"
    /\ ret[1][3].role = "user"

\* -------------------------------------------------------- error translator
\* C14: translate_error returns an input that has type 'error' and an 'error'
\* key unchanged, for every status code, and translating its own result again
\* changes nothing.
C14_ErrorIdempotent ==
    Returned("translate_error") =>
        /\ (arg.error_response.type = "error" /\ arg.error_response.has_error)
               => ret[1] = arg.error_response
        /\ \A status_code \in StatusCodes :
               translate_error(ret[1], status_code) = ret[1]

\* C14 witness: an Anthropic-shaped envelope that also carries a top-level
\* message, returned as it came.
C14_Witness ==
    /\ Returned("translate_error")
    /\ arg.error_response.type = "error" /\ arg.error_response.has_error
    /\ arg.error_response.error.kind = "dict"
    /\ arg.error_response.error.message = "busy"
    /\ arg.error_response.message = "top"
    /\ ret[1] = arg.error_response

\* C16: for a body that is not Anthropic-shaped and whose 'error' is an
\* object, the message of the envelope is error.message when present and not
\* empty, else the top-level message, else the top-level detail, else the
\* stringified body.
C16_ErrorMessagePriority ==
    ( /\ Returned("translate_error")
      /\ ~(arg.error_response.type = "error" /\ arg.error_response.has_error)
      /\ arg.error_response.has_error
      /\ arg.error_response.error.kind = "dict" ) =>
        ret[1].error.message =
            IF arg.error_response.error.message # "" THEN arg.error_response.error.message
            ELSE IF arg.error_response.message # "" THEN arg.error_response.message
            ELSE IF arg.error_response.detail # "" THEN arg.error_response.detail
            ELSE ToString(arg.error_response)

\* ----------------------------------------------------- response translator
\* The stop_reason of the message_delta that ends a stream whose chunks carry
\* the finish reasons earlier (None for none) and then last.
StreamStopReason(earlier, last) ==
    _emit_stream_end(
        translate_chunk(
            translate_chunk(StreamState, DeltaChunk("Hi", <<>>, earlier)).state,
            DeltaChunk("", <<>>, last)).state)[1].stop_reason

\* C15: for finish_reason stop, length, tool_calls, content_filter and
\* function_call, the stop_reason of the translated response equals the
\* stop_reason the stream translator puts in message_delta for a stream whose
\* last finish_reason is that value.
C15_SameStopReason ==
    ( /\ Returned("translate_response")
      /\ arg.openai_response.has_choices
      /\ arg.openai_response.finish_reason
             \in {"stop", "length", "tool_calls", "content_filter", "function_call"} ) =>
        \A earlier \in FinishReasons \cup {None} :
            ret[1].stop_reason = StreamStopReason(earlier, arg.openai_response.finish_reason)

\* C15 witness: a response that finished with function_call reports tool_use,
\* as does a stream that ends with function_call after an earlier stop.
C15_Witness ==
    /\ Returned("translate_response")
    /\ arg.openai_response.has_choices
    /\ arg.openai_response.finish_reason = "function_call"
    /\ ret[1].stop_reason = "tool_use"
    /\ StreamStopReason("stop", "function_call") = "tool_use"

\* -------------------------------------------------------------- dispatcher
\* C17: the model returned to the client is the model the client sent, not the
\* mapped one: in the translated non-streaming response, in the message_start
\* of a translated stream and in the placeholder responses, for every mapping.
C17_ModelEchoed ==
    /\ response.kind \in {"message", "placeholder"}
           => response.body.model = request.body.model
    /\ \A i \in 1..Len(out) :
           out[i].type = "message_start" => out[i].model = request.body.model

\* C17 witness: a translated stream whose message_start names the client's
\* model while the request sent upstream named the mapped one.
C17_Witness ==
    /\ step = "streaming"
    /\ response.kind = "stream"
    /\ request.body.model = "claude-opus-4"
    /\ ret[1].model = config.model_mapper["claude-opus-4"]
    /\ \E i \in 1..Len(out) :
           out[i].type = "message_start" /\ out[i].model = "claude-opus-4"

\* The client key: x-api-key, or the Bearer token when x-api-key is empty.
ClientKey ==
    IF request.x_api_key # "" THEN request.x_api_key
    ELSE IF request.authorization.scheme = "Bearer" THEN request.authorization.token
    ELSE ""

Authenticated == ClientKey # "" /\ ClientKey = config.proxy_access_token

\* C18: a request whose client key is absent or wrong is answered 401 with an
\* authentication_error envelope; its body is neither parsed nor translated,
\* no OAuth token is fetched and no upstream call is made.
C18_BadKeyRejected ==
    ~Authenticated =>
        /\ step \in {"received", "done"}
        /\ counts = [parsed |-> 0, translated |-> 0, get_token |-> 0, posts |-> 0]
        /\ token = None
        /\ step = "done" =>
               /\ response.status = 401
               /\ response.body.type = "error"
               /\ response.body.error.type = "authentication_error"

\* C18 witness: a wrong key with a malformed body is answered 401, not 400.
C18_Witness ==
    /\ step = "done"
    /\ request.x_api_key = "wrong"
    /\ request.authorization.token = "proxy-token"
    /\ request.body.kind = "malformed"
    /\ response.status = 401
    /\ counts.parsed = 0

\* C19: in placeholder mode every authenticated request with a non-empty JSON
\* body is answered 200 with the canned response, or the canned stream when
\* stream is truthy, and neither the upstream nor the OAuth manager is called.
C19_PlaceholderAlwaysCanned ==
    ( /\ config.use_placeholder_mode
      /\ Authenticated
      /\ request.body.kind \in {"object", "nonobject"} ) =>
        /\ counts.posts = 0 /\ counts.get_token = 0
        /\ step = "done" =>
               /\ response.status = 200
               /\ response.kind = IF request.body.stream THEN "placeholder_stream"
                                  ELSE "placeholder"

\* The outbound headers have been built.
HeadersBuilt == step = "authorized" \/ counts.posts > 0

\* C20: the outbound Authorization is 'Bearer dev-mock-token' in dev mode, and
\* the OAuth manager is then not consulted; otherwise the OAuth token when
\* OAuth is configured; otherwise the static target API key when configured;
\* otherwise none.  In OAuth mode the cache is consulted before each upstream
\* call.
C20_AuthorizationPriority ==
    /\ HeadersBuilt =>
           headers = IF config.dev_mode THEN Authorization("Bearer", "dev-mock-token")
                     ELSE IF config.oauth_configured
                          THEN Authorization("Bearer", "oauth-token")
                          ELSE IF config.api_key_configured
                               THEN Authorization("Bearer", "target-api-key")
                               ELSE Authorization("", "")
    /\ config.dev_mode => counts.get_token = 0
    /\ (~config.dev_mode /\ config.oauth_configured /\ counts.posts > 0)
           => counts.get_token > 0

\* C20, amended: as C20, with the OAuth token used when the OAuth manager
\* exists and get_token() returned a token, and the cache consulted exactly
\* once before each upstream call when the OAuth manager exists.
C20_AuthorizationPriorityAmended ==
    /\ HeadersBuilt =>
           headers = IF config.dev_mode THEN Authorization("Bearer", "dev-mock-token")
                     ELSE IF config.oauth_manager /\ token \notin {None, "", "raises"}
                          THEN Authorization("Bearer", token)
                          ELSE IF config.api_key_configured
                               THEN Authorization("Bearer", "target-api-key")
                               ELSE Authorization("", "")
    /\ config.dev_mode => (counts.get_token = 0 /\ token = None)
    /\ ~config.oauth_manager => (counts.get_token = 0 /\ token = None)
    /\ (~config.dev_mode /\ config.oauth_manager /\ counts.posts > 0)
           => counts.get_token = 1

\* C20 witness: OAuth and a static key are both configured, the manager
\* returned a token, and the upstream call carried the OAuth token.
C20_Witness ==
    /\ counts.posts = 1
    /\ ~config.dev_mode /\ config.oauth_manager /\ config.api_key_configured
    /\ counts.get_token = 1
    /\ token = "oauth-token"
    /\ headers = Authorization("Bearer", "oauth-token")

\* ------------------------------------------------------------ upstream call
\* C21: whatever the upstream does (success, error status, timeout, connection
\* error, invalid JSON, an error while streaming), a client request leads to at
\* most one POST to the upstream.
C21_AtMostOnePost == counts.posts <= 1

C21_Witness ==
    /\ step = "done"
    /\ counts.posts = 1
    /\ upstream.kind = "timeout"
    /\ response.status = 529

\* C22: when the upstream answers with an error status, the client gets one
\* JSON error envelope carrying exactly the upstream's HTTP status, in both
\* modes, and no event stream is started.
C22_UpstreamStatusPassedOn ==
    (step = "done" /\ upstream.kind = "error_status")
        => /\ response.status = upstream.status
           /\ response.kind = "error"
           /\ response.body.type = "error"
           /\ out = <<>>

\* C23: a POST that fails before any response is answered with one error
\* envelope: 529 overloaded_error on a timeout, 502 api_error on a connection
\* failure, 502 api_error on a 2xx body that is not JSON (non-streaming).
C23_FailureStatus ==
    (step = "done" /\ upstream.kind \in {"timeout", "connection_error", "invalid_json"})
        => /\ response.kind = "error"
           /\ response.body = error_envelope(response.body.error.type,
                                             response.body.error.message)
           /\ response.status = IF upstream.kind = "timeout" THEN 529 ELSE 502
           /\ response.body.error.type =
                  IF upstream.kind = "timeout" THEN "overloaded_error" ELSE "api_error"
           /\ upstream.kind = "invalid_json" => ~request.body.stream
           /\ counts.posts = 1
           /\ out = <<>>

C23_Witness ==
    /\ step = "done"
    /\ upstream.kind = "invalid_json"
    /\ response.status = 502
    /\ response.body.error.type = "api_error"

\* C24: an exception while a 2xx streaming response is translated gives the
\* client exactly one more event, an error event of type api_error, as the
\* last event of the stream; the HTTP status stays 200 and the upstream
\* connection is closed. Nothing happens after it.
C24_StreamErrorEvent ==
    [][ /\ pc # "error"
        /\ (step = "streaming" /\ pc' = "error")
              => /\ out' = Append(out, [type |-> "error", error_type |-> "api_error",
                                        message |-> "exception"])
                 /\ response'.status = 200
                 /\ response'.kind = "stream"
                 /\ closed'
                 /\ step' = "done" ]_vars

C24_Witness ==
    /\ step = "done"
    /\ pc = "error"
    /\ response.status = 200
    /\ closed
    /\ Len(out) > 1
    /\ out[Len(out)].type = "error"
    /\ out[Len(out) - 1].type # "error"

\* C25: a started generator closes the upstream response exactly when it
\* terminates (exhaustion, client disconnect, exception), and it does so once:
\* every step starts with the response open and the generator running, so no
\* event follows a disconnect and no second close follows the first.
C25_ClosedExactlyOnce ==
    [][ /\ ~closed
        /\ pc = "streaming"
        /\ (pc' \in {"complete", "disconnected", "error"}) <=> closed'
        /\ pc' \in {"streaming", "complete", "disconnected", "error"} ]_vars

C25_Witness ==
    /\ pc = "disconnected"
    /\ closed
    /\ out # <<>>
    /\ nread > 1

\* C26: the translators do not raise on recoverable input quirks: a call on a
\* body with a missing field (absent or null: tool_calls, usage, error,
\* function, arguments) returns a degraded result.
C26_TranslatorsNeverRaise == Len(ret) # 2

\* ---------------------------------------------------------------- token cache
\* C27: token refresh is mutually exclusive: at most one request to the token
\* endpoint is in flight, at most one caller is between acquiring and
\* releasing the lock, every write of the cache entry is made by the holder of
\* the lock, and a caller that gets the lock while the entry is valid returns
\* that token without a request of its own.
C27_RefreshMutuallyExclusive ==
    [][ /\ Cardinality({c \in 1..MaxCallers : oauth.pc[c] = "fetching"}) <= 1
        /\ Cardinality({c \in 1..MaxCallers : oauth.pc[c] \in {"locked", "fetching"}}) <= 1
        /\ oauth'.entry[1] # oauth.entry[1]
              => /\ oauth.lock[1] # 0
                 /\ oauth.pc[oauth.lock[1]] \in {"locked", "fetching"}
        /\ \A c \in 1..MaxCallers :
              (oauth.pc[c] = "locked" /\ oauth'.pc[c] # "locked"
                 /\ oauth.entry[1].token # 0 /\ oauth.now < oauth.entry[1].expires_at)
                  => /\ oauth'.pc[c] = "returned"
                     /\ oauth'.result[c] = oauth.entry[1].token
                     /\ oauth'.issued = oauth.issued ]_vars

\* A caller waits for the lock while another one is asking the token endpoint.
C27_Witness ==
    \E c, d \in 1..MaxCallers :
        /\ oauth.pc[c] = "fetching"
        /\ oauth.pc[d] = "acquire"
        /\ oauth.lock[1] = c

\* C28: while now < expires_at a call of get_token() returns the cached token
\* and asks the token endpoint nothing; the first call with now >= expires_at
\* discards the entry and refreshes.
C28_TokenReuse ==
    [][ \A c \in 1..MaxCallers :
          (oauth.pc[c] = "locked" /\ oauth'.pc[c] # "locked")
              => IF oauth.entry[1].token # 0 /\ oauth.now < oauth.entry[1].expires_at
                 THEN /\ oauth'.pc[c] = "returned"
                      /\ oauth'.result[c] = oauth.entry[1].token
                      /\ oauth'.entry = oauth.entry
                      /\ oauth'.issued = oauth.issued
                      /\ \A d \in 1..MaxCallers : oauth'.pc[d] # "fetching"
                 ELSE /\ oauth'.pc[c] = "fetching"
                      /\ oauth'.entry[1].token = 0 ]_vars

\* The entry of token 1 was reused by a second call, ran out, and a second
\* token was fetched.
C28_Witness ==
    /\ oauth.issued = 2
    /\ oauth.entry[1].token = 2
    /\ \A c \in 1..MaxCallers : oauth.pc[c] = "returned"
    /\ \E c \in 1..MaxCallers : oauth.result[c] = 1
    /\ \E c \in 1..MaxCallers : oauth.result[c] = 2

C30_StreamsIndependent ==
    \A r \in {1, 2} :
        streams.responses[r].out =
            translate_alone(StreamTranslator(IF r = 1 THEN "claude-sonnet-4"
                                             ELSE "claude-opus-4"),
                            streams.responses[r].lines)

\* Both responses are under way, each with its own message_start and more.
C30_Witness ==
    \A r \in {1, 2} :
        /\ Len(streams.responses[r].lines) = 2
        /\ Len(streams.responses[r].out) > 2
        /\ streams.responses[r].out[1].type = "message_start"

\* ------------------------------------------------------------ frame effects
\* C31: in every state of a stream, a chunk with no choices that carries usage
\* emits no event and changes input_tokens and output_tokens only.
C31_UsageOnlyFrame ==
    \A chunk \in Chunks :
        (chunk.kind = "data" /\ ~chunk.has_choices /\ chunk.has_usage)
            => /\ translate_chunk(state, chunk).events = <<>>
               /\ ~translate_chunk(state, chunk).raised
               /\ translate_chunk(state, chunk).state =
                      [state EXCEPT !.input_tokens = chunk.prompt_tokens,
                                    !.output_tokens = chunk.completion_tokens]

\* A usage chunk was the last line of a stream that has a block open and a
\* stop_reason recorded.
C31_Witness ==
    /\ pc = "streaming"
    /\ line = "data"
    /\ state.input_tokens = 3 /\ state.output_tokens = 2
    /\ state.message_started /\ state.content_block_started
    /\ state.stop_reason # None
    /\ DOMAIN state.accumulated_tool_calls # {}

\* C32: a line whose JSON body has a top-level 'error' emits exactly one
\* event, an error event of type api_error, and leaves the stream state as it
\* was; a line that is empty, does not start with 'data: ' or is not valid
\* JSON emits nothing and leaves the stream state as it was.
C32_ErrorAndSkippedFrame ==
    [][ (nread' = nread + 1 /\ pc' = "streaming")
          => /\ line' = "error"
                  => /\ Len(out') = Len(out) + 1
                     /\ SubSeq(out', 1, Len(out)) = out
                     /\ out'[Len(out')].type = "error"
                     /\ out'[Len(out')].error_type = "api_error"
                     /\ state' = state
             /\ line' \in {"blank", "space", "nondata", "badjson"}
                  => out' = out /\ state' = state ]_vars

\* An error line was handled in the middle of a message.
C32_Witness ==
    /\ pc = "streaming"
    /\ line = "error"
    /\ state.message_started /\ state.content_block_started
    /\ Len(out) > 2
    /\ EndsWith("error")

\* ------------------------------------------------------------ message order
\* C33: the messages of a translated request are the optional system message
\* followed, in input order, by the translation of each input message: the
\* output splits into consecutive runs, run i being the translation of input
\* message i alone, and a message with an unknown role has an empty run.
C33_InputOrderKept ==
    Returned("translate_request") =>
        LET msgs == arg.anthropic_request.messages
            head == system_messages(arg.anthropic_request.system)
            end[i \in 0..Len(msgs)] ==
                IF i = 0 THEN Len(head) ELSE end[i - 1] + Len(_translate_message(msgs[i]))
        IN  /\ Len(ret[1].messages) = end[Len(msgs)]
            /\ Len(head) <= 1
            /\ SubSeq(ret[1].messages, 1, Len(head)) = head
            /\ \A i \in 1..Len(msgs) :
                  /\ SubSeq(ret[1].messages, end[i - 1] + 1, end[i])
                         = _translate_message(msgs[i])
                  /\ msgs[i].role \notin {"user", "assistant", "tool_result"}
                         => end[i] = end[i - 1]

\* A user message with a tool result (two output messages) comes after an
\* assistant message, and the output keeps that order after the system message.
C33_Witness ==
    /\ Returned("translate_request")
    /\ Len(arg.anthropic_request.messages) = 2
    /\ arg.anthropic_request.messages[1].role = "assistant"
    /\ arg.anthropic_request.messages[2].role = "user"
    /\ Len(ret[1].messages) = 4
    /\ ret[1].messages[1].role = "system"
    /\ ret[1].messages[2].role = "assistant"
    /\ ret[1].messages[3].role = "tool"
    /\ ret[1].messages[4].role = "user"

\* --------------------------------------------------------- response content
\* C34: the content of a translated response is one text block if
\* message.content is non-empty, then one tool_use block per upstream tool
\* call of type function, in upstream order, with the upstream id and name and
\* with the parsed arguments as input, or {raw: arguments} when they are not
\* valid JSON; tool calls of another type give no block.
C34_ResponseContent ==
    (Returned("translate_response") /\ arg.openai_response.has_choices) =>
        LET calls == SelectSeq(arg.openai_response.tool_calls,
                               LAMBDA tc : tc.type = "function")
            texts == IF arg.openai_response.content # "" THEN 1 ELSE 0
        IN  /\ Len(ret[1].content) = texts + Len(calls)
            /\ texts = 1 => /\ ret[1].content[1].type = "text"
                            /\ ret[1].content[1].text = arg.openai_response.content
            /\ \A i \in 1..Len(calls) :
                  /\ ret[1].content[texts + i].type = "tool_use"
                  /\ ret[1].content[texts + i].name = calls[i].name
                  /\ calls[i].has_id => ret[1].content[texts + i].id = calls[i].id
                  /\ IF Len(calls[i].arguments) = 2 /\ calls[i].arguments[1] = "json:"
                     THEN /\ ~ret[1].content[texts + i].input.raw
                          /\ ret[1].content[texts + i].input.value = calls[i].arguments[2]
                     ELSE /\ ret[1].content[texts + i].input.raw
                          /\ ret[1].content[texts + i].input.value = calls[i].arguments

\* Text, a call of another type, and a function call with valid arguments:
\* a text block and one tool_use block.
C34_Witness ==
    /\ Returned("translate_response")
    /\ arg.openai_response.content = "Hello"
    /\ Len(arg.openai_response.tool_calls) = 2
    /\ arg.openai_response.tool_calls[1].type = "custom"
    /\ arg.openai_response.tool_calls[2].type = "function"
    /\ Len(ret[1].content) = 2
    /\ ret[1].content[2].type = "tool_use"
    /\ ret[1].content[2].id = "call_1"
    /\ ~ret[1].content[2].input.raw

\* --------------------------------------------------------- tool-call deltas
\* C35: no argument fragment is lost: for every tool call whose block has
\* started, the partial_json strings of its input_json_delta events, in the
\* order emitted, make up the arguments accumulated in input_json, fragments
\* that came before the name included (in a stream whose client is connected
\* and that met no exception, so that every event of every line was yielded).
C35_NoFragmentLost ==
    \A k \in DOMAIN state.accumulated_tool_calls :
        (pc \in {"streaming", "complete"} /\ state.accumulated_tool_calls[k].block_started) =>
            LET deltas == SelectSeq(out, LAMBDA e :
                              /\ IsJsonDelta(e)
                              /\ e.delta.partial_json # <<>>
                              /\ e.delta.partial_json[1] \in {FragA[k + 1], FragB[k + 1]})
            IN  /\ Len(deltas) = Len(state.accumulated_tool_calls[k].input_json)
                /\ \A i \in 1..Len(deltas) :
                      deltas[i].delta.partial_json
                          = <<state.accumulated_tool_calls[k].input_json[i]>>

\* C36: a text_delta is emitted only into a text block: the latest block
\* event before it is a content_block_start of type text or another delta of
\* the block that start opened; it never follows the start of a tool_use
\* block or a content_block_stop.
C36_TextDeltaInTextBlock ==
    \A p \in Positions :
        (out[p].type = "content_block_delta" /\ out[p].delta.type = "text_delta") =>
            \E q \in 1..(p - 1) :
                /\ IsBlockStart(out[q])
                /\ out[q].content_block.type = "text"
                /\ \A r \in (q + 1)..(p - 1) :
                       ~IsBlockStart(out[r]) /\ ~IsBlockStop(out[r])

\* C37: every content_block_delta and content_block_stop carries the index of
\* the latest content_block_start before it, and an input_json_delta of tool
\* call k carries the index of the content_block_start of tool call k.
C37_DeltaIndexOfBlock ==
    /\ \A p \in Positions :
          (out[p].type = "content_block_delta" \/ IsBlockStop(out[p])) =>
              \E q \in 1..(p - 1) :
                  /\ IsBlockStart(out[q])
                  /\ \A r \in (q + 1)..(p - 1) : ~IsBlockStart(out[r])
                  /\ out[p].index = out[q].index
    /\ \A k \in 0..MaxToolIndex : \A p \in JsonDeltasOf(k) : \A q \in ToolStartsOf(k) :
          out[p].index = out[q].index

\* ------------------------------------------------------------ OAuth fallback
\* C38: when get_token() returns null or raises, the request is not failed:
\* the outbound Authorization is the static target API key if one is
\* configured and absent otherwise, no response has been given before the
\* upstream call, and the upstream request is then sent exactly once.
C38_OAuthFallback ==
    (token \in {"", "raises"}) =>
        /\ counts.get_token = 1
        /\ headers = IF config.api_key_configured
                     THEN Authorization("Bearer", "target-api-key")
                     ELSE Authorization("", "")
        /\ step \in {"authorized", "streaming", "done"}
        /\ step = "authorized" => (counts.posts = 0 /\ response.kind = "none")
        /\ step \in {"streaming", "done"} => counts.posts = 1

\* get_token() raised, the static key was sent, and the upstream answered.
C38_Witness ==
    /\ token = "raises"
    /\ config.api_key_configured
    /\ headers = Authorization("Bearer", "target-api-key")
    /\ counts.posts = 1
    /\ step = "done"
    /\ response.status = 200

\* ------------------------------------------------------------ usage counters
\* C39: once N calls of log_api_call have completed and none is running,
\* total_requests = N = successful_requests + failed_requests, and api_calls
\* holds the min(N, max_logs) entries appended last, newest first.
C39_UsageConsistent ==
    (\A t \in 1..MaxThreads : log_manager.threads[t].pc = "idle") =>
        LET N == log_manager.completed
            usage == log_manager.manager.usage
            api_calls == log_manager.manager.api_calls
            kept == IF N < log_manager.manager.max_logs THEN N
                    ELSE log_manager.manager.max_logs
        IN  /\ usage.total_requests = N
            /\ usage.total_requests = usage.successful_requests + usage.failed_requests
            /\ Len(api_calls) = kept
            /\ \A i \in 1..kept : api_calls[i].call = N - i + 1

====
